---- MODULE Spec2Model ----
(***************************************************************************)
(* A state-machine model of the drawing editor (DrawingApp, the component  *)
(* that follows the Toolbar in src/components/toolbar.tsx) and of its      *)
(* properties panel (src/components/properties-panel.tsx).                 *)
(*                                                                         *)
(* Every React state cell of DrawingApp is a variable.  Every event        *)
(* handler is an operator from the state record (the values the handler's  *)
(* closure sees) and the event's inputs to the state after the handler     *)
(* and the re-render; an action applies one handler.  Coordinates are      *)
(* integers.  Date.now() is an input of the handlers that read it.         *)
(***************************************************************************)
EXTENDS Integers, Sequences, FiniteSets, TLC

VARIABLES
    history,          \* useState<History>: [past, present, future]
    selectedElement,  \* useState<Element | null>: << >> is null, <<e>> is e
    tool,             \* useState<ElementType>
    action,           \* "none" | "drawing" | "moving" | "resizing" | "selecting"
    startPoint,       \* useState<{x, y} | null>: << >> is null
    activeHandle,     \* useState<HandlePosition | null>: "null" is null
    selectionBox,     \* useState<{startX, startY, width, height} | null>
    multiSelectMode,  \* useState(false)
    clipboard,        \* useState<Element[]>
    now,              \* the last value Date.now() returned
    rnd,              \* how many Math.random() suffixes have been drawn
    reading,          \* documents handed to FileReader.readAsText, not loaded yet
    timers,           \* points of the synthetic dblclick events setTimeout holds
    textarea,         \* the <textarea> handleDoubleClick opened last: << >> if none
    zoom,             \* useState(1), in thousandths
    lastEvent,        \* history variable: the handler that ran last
    undone,           \* history variable: the handler before it was an undo that took a step back
    committed,        \* history variable: that handler pushed onto past
    gestureStart,     \* history variable: `history` just before the last pointer-down
    gestureKind,      \* history variable: the action the last pointer-down entered
    gestureMoves,     \* history variable: pointer-moves handled since that pointer-down
    gestureShift,     \* history variable: one of those pointer-moves had Shift held
    nev               \* number of events handled (bounds the exploration)

vars == << history, selectedElement, tool, action, startPoint, activeHandle,
           selectionBox, multiSelectMode, clipboard, now, rnd, reading, timers,
           textarea, zoom, lastEvent, undone, committed, gestureStart, gestureKind, gestureMoves,
           gestureShift, nev >>

---------------------------------------------------------------------------
(* JavaScript values.  A number field holds an integer, NaN, undefined or  *)
(* null; the three are integers no coordinate of the model reaches.       *)

NaN == 1000001
Undefined == 1000002
Null == 1000003

\* the zoom factor 1: zoom factors are held in thousandths
ZoomScale == 1000

\* v converts to a number other than NaN (null converts to 0)
IsNum(v) == v \notin {NaN, Undefined}

\* the number v converts to, for IsNum(v)
Num(v) == IF v = Null THEN 0 ELSE v

\* a + b
Plus(a, b) == IF IsNum(a) /\ IsNum(b) THEN Num(a) + Num(b) ELSE NaN

\* a - b
Minus(a, b) == IF IsNum(a) /\ IsNum(b) THEN Num(a) - Num(b) ELSE NaN

\* v || 0
OrZero(v) == IF IsNum(v) THEN Num(v) ELSE 0

\* Math.abs
Abs(n) == IF n < 0 THEN 0 - n ELSE n

\* Math.max
Max(a, b) == IF a >= b THEN a ELSE b

\* Math.sqrt, on the perfect squares (the inputs of the model are chosen so
\* that every distance taken is an integer)
Sqrt(n) == CHOOSE r \in 0..n : r * r = n

\* el.selected as a condition: the field holds "true", "false" or "undefined"
Truthy(sel) == sel = "true"

\* !el.selected
Not(sel) == IF sel = "true" THEN "false" ELSE "true"

\* a === b as a field value
Bool(b) == IF b THEN "true" ELSE "false"

\* a text is a sequence of characters; an absent text field holds NoText
NoText == << "undefined" >>

\* (element.text || "")
TextOf(el) == IF el.text = NoText THEN << >> ELSE el.text

\* an absent id; an id is << Date.now(), suffix >>, suffix 0 when none is appended
NoId == << >>

ElementTypes == {"selection", "rectangle", "circle", "line", "arrow", "text", "freehand"}

Point(x, y) == [x |-> x, y |-> y]

\* type Element: an absent optional field holds Undefined, "undefined",
\* NoText or (points) << >>
Element(id, type, x, y, width, height, radius, points, text, fill, stroke, strokeWidth, selected, rotation) ==
    [id |-> id, type |-> type, x |-> x, y |-> y, width |-> width,
     height |-> height, radius |-> radius, points |-> points, text |-> text,
     fill |-> fill, stroke |-> stroke, strokeWidth |-> strokeWidth,
     isDragging |-> "false", selected |-> selected, rotation |-> rotation]

\* the initial values of the toolbar's colour, stroke width and fill
color == "#000000"
strokeWidth == 2
fill == "transparent"

\* the placeholder text of a new text element, as a sequence of characters
PlaceholderText ==
    << "D", "o", "u", "b", "l", "e", "-", "c", "l", "i", "c", "k", " ",
       "t", "o", " ", "e", "d", "i", "t" >>

---------------------------------------------------------------------------
(* Sequence helpers: the built-in Array.prototype.map, find, some and     *)
(* slice of JavaScript (filter is SelectSeq).                              *)

MapSeq(f(_), s) == [i \in 1..Len(s) |-> f(s[i])]

\* elements.find(pred): << >> when nothing is found, else << the first match >>
Find(s, pred(_)) ==
    LET hits == {i \in 1..Len(s) : pred(s[i])}
    IN  IF hits = {} THEN << >>
        ELSE << s[CHOOSE i \in hits : \A j \in hits : i <= j] >>

Some(s, pred(_)) == \E i \in 1..Len(s) : pred(s[i])

\* s.slice(-n)
SliceLast(s, n) == IF Len(s) <= n THEN s ELSE SubSeq(s, Len(s) - n + 1, Len(s))

\* s.slice(0, n)
SliceFirst(s, n) == IF Len(s) <= n THEN s ELSE SubSeq(s, 1, n)

---------------------------------------------------------------------------
(* The history manager.                                                    *)

MAX_HISTORY_LENGTH == 50

\* updateHistory without `future: []`: the redo stack survives a commit
updateHistory_keepsFuture(prev, newElements) ==
    [past    |-> SliceLast(Append(prev.past, prev.present), MAX_HISTORY_LENGTH),
     present |-> newElements,
     future  |-> prev.future]

\* updateHistory without `.slice(-MAX_HISTORY_LENGTH)`: past grows without limit
updateHistory_uncapped(prev, newElements) ==
    [past    |-> Append(prev.past, prev.present),
     present |-> newElements,
     future  |-> << >>]

updateHistory(prev, newElements) ==
    [past    |-> SliceLast(Append(prev.past, prev.present), MAX_HISTORY_LENGTH),
     present |-> newElements,
     future  |-> << >>]

\* handleUndo taking the oldest snapshot, past[0], instead of the newest
handleUndo_popsOldest(prev) ==
    IF Len(prev.past) = 0 THEN prev
    ELSE [past    |-> Tail(prev.past),
          present |-> prev.past[1],
          future  |-> SliceFirst(<< prev.present >> \o prev.future, MAX_HISTORY_LENGTH)]

handleUndo(prev) ==
    IF Len(prev.past) = 0 THEN prev
    ELSE [past    |-> SubSeq(prev.past, 1, Len(prev.past) - 1),
          present |-> prev.past[Len(prev.past)],
          future  |-> SliceFirst(<< prev.present >> \o prev.future, MAX_HISTORY_LENGTH)]

\* handleRedo with `future: []`, as a commit has it
handleRedo_clearsFuture(prev) ==
    IF Len(prev.future) = 0 THEN prev
    ELSE [past    |-> SliceLast(Append(prev.past, prev.present), MAX_HISTORY_LENGTH),
          present |-> prev.future[1],
          future  |-> << >>]

handleRedo(prev) ==
    IF Len(prev.future) = 0 THEN prev
    ELSE [past    |-> SliceLast(Append(prev.past, prev.present), MAX_HISTORY_LENGTH),
          present |-> prev.future[1],
          future  |-> Tail(prev.future)]

\* setPresent through updateHistory: every live edit is a commit
setPresent_commits(prev, updatedElements) ==
    [past    |-> SliceLast(Append(prev.past, prev.present), MAX_HISTORY_LENGTH),
     present |-> updatedElements,
     future  |-> << >>]

\* the live edits of a gesture: setHistory((prev) => ({...prev, present}))
setPresent(prev, updatedElements) == [prev EXCEPT !.present = updatedElements]

\* commitGesture with `future: prev.future` in place of `future: []`
commitGesture_keepsFuture(prev) ==
    [past    |-> SliceLast(Append(prev.past, prev.present), MAX_HISTORY_LENGTH),
     present |-> prev.present,
     future  |-> prev.future]

\* the setHistory call of handleMouseUp after drawing, moving or resizing
commitGesture(prev) ==
    [past    |-> SliceLast(Append(prev.past, prev.present), MAX_HISTORY_LENGTH),
     present |-> prev.present,
     future  |-> << >>]

---------------------------------------------------------------------------
(* The geometry kernel.  A comparison with NaN or undefined is false, so a *)
(* test whose operands are not all numbers fails.                          *)

\* 2 * (the distance from (x, y) to the handle centre (hx2 / 2, hy2 / 2)) is
\* at most handleSize in both directions
InHandle(x, y, hx2, hy2) ==
    /\ 2 * x >= hx2 - 8
    /\ 2 * x <= hx2 + 8
    /\ 2 * y >= hy2 - 8
    /\ 2 * y <= hy2 + 8

\* isPointInElement with `distance <= 10` for a line or an arrow
isPointInElement_inclusive(x, y, element) ==
    IF element.type = "rectangle" THEN
        /\ IsNum(element.x) /\ IsNum(element.y)
        /\ x >= Num(element.x)
        /\ x <= Num(element.x) + OrZero(element.width)
        /\ y >= Num(element.y)
        /\ y <= Num(element.y) + OrZero(element.height)
    ELSE IF element.type = "circle" THEN
        /\ IsNum(element.x) /\ IsNum(element.y)
        /\ OrZero(element.radius) >= 0
        /\ (x - Num(element.x)) * (x - Num(element.x))
             + (y - Num(element.y)) * (y - Num(element.y))
              <= OrZero(element.radius) * OrZero(element.radius)
    ELSE IF element.type \in {"line", "arrow"} THEN
        IF Len(element.points) < 2 THEN FALSE
        ELSE LET start == element.points[1]
                 end == element.points[2]
                 len2 == (end.x - start.x) * (end.x - start.x)
                           + (end.y - start.y) * (end.y - start.y)
                 cross == (end.y - start.y) * x - (end.x - start.x) * y
                            + end.x * start.y - end.y * start.x
             IN  len2 > 0 /\ cross * cross <= 100 * len2
    ELSE IF element.type = "text" THEN
        /\ IsNum(element.x) /\ IsNum(element.y)
        /\ x >= Num(element.x)
        /\ x <= Num(element.x) + Len(TextOf(element)) * 8
        /\ y >= Num(element.y) - 16
        /\ y <= Num(element.y)
    ELSE FALSE

isPointInElement(x, y, element) ==
    IF element.type = "rectangle" THEN
        /\ IsNum(element.x) /\ IsNum(element.y)
        /\ x >= Num(element.x)
        /\ x <= Num(element.x) + OrZero(element.width)
        /\ y >= Num(element.y)
        /\ y <= Num(element.y) + OrZero(element.height)
    ELSE IF element.type = "circle" THEN
        /\ IsNum(element.x) /\ IsNum(element.y)
        /\ OrZero(element.radius) >= 0
        /\ (x - Num(element.x)) * (x - Num(element.x))
             + (y - Num(element.y)) * (y - Num(element.y))
              <= OrZero(element.radius) * OrZero(element.radius)
    ELSE IF element.type \in {"line", "arrow"} THEN
        IF Len(element.points) < 2 THEN FALSE
        ELSE LET start == element.points[1]
                 end == element.points[2]
                 len2 == (end.x - start.x) * (end.x - start.x)
                           + (end.y - start.y) * (end.y - start.y)
                 cross == (end.y - start.y) * x - (end.x - start.x) * y
                            + end.x * start.y - end.y * start.x
             IN  \* |cross| / sqrt(len2) < 10; 0 / 0 is NaN and NaN < 10 is false
                 cross * cross < 100 * len2
    ELSE IF element.type = "text" THEN
        LET textWidth == Len(TextOf(element)) * 8
            textHeight == 16
        IN  /\ IsNum(element.x) /\ IsNum(element.y)
            /\ x >= Num(element.x)
            /\ x <= Num(element.x) + textWidth
            /\ y >= Num(element.y) - textHeight
            /\ y <= Num(element.y)
    ELSE FALSE

\* the handle of `element` at (x, y), "null" when there is none
getHandleAtPosition(x, y, element) ==
    IF element.type = "rectangle" THEN
        IF ~(IsNum(element.x) /\ IsNum(element.y)) THEN "null"
        ELSE LET ex == Num(element.x)
                 ey == Num(element.y)
                 width == OrZero(element.width)
                 height == OrZero(element.height)
             IN  IF InHandle(x, y, 2 * ex, 2 * ey) THEN "top-left"
                 ELSE IF InHandle(x, y, 2 * ex + width, 2 * ey) THEN "top"
                 ELSE IF InHandle(x, y, 2 * (ex + width), 2 * ey) THEN "top-right"
                 ELSE IF InHandle(x, y, 2 * ex, 2 * ey + height) THEN "left"
                 ELSE IF InHandle(x, y, 2 * (ex + width), 2 * ey + height) THEN "right"
                 ELSE IF InHandle(x, y, 2 * ex, 2 * (ey + height)) THEN "bottom-left"
                 ELSE IF InHandle(x, y, 2 * ex + width, 2 * (ey + height)) THEN "bottom"
                 ELSE IF InHandle(x, y, 2 * (ex + width), 2 * (ey + height))
                      THEN "bottom-right"
                 ELSE IF InHandle(x, y, 2 * ex + width, 2 * (ey - 30)) THEN "rotation"
                 ELSE "null"
    ELSE IF element.type = "circle" THEN
        IF ~(IsNum(element.x) /\ IsNum(element.y)) THEN "null"
        ELSE LET ex == Num(element.x)
                 ey == Num(element.y)
                 radius == OrZero(element.radius)
             IN  IF InHandle(x, y, 2 * ex, 2 * (ey - radius)) THEN "top"
                 ELSE IF InHandle(x, y, 2 * (ex + radius), 2 * ey) THEN "right"
                 ELSE IF InHandle(x, y, 2 * ex, 2 * (ey + radius)) THEN "bottom"
                 ELSE IF InHandle(x, y, 2 * (ex - radius), 2 * ey) THEN "left"
                 ELSE IF InHandle(x, y, 2 * ex, 2 * (ey - radius - 30)) THEN "rotation"
                 ELSE "null"
    ELSE IF element.type \in {"line", "arrow"} THEN
        IF Len(element.points) < 2 THEN "null"
        ELSE LET start == element.points[1]
                 end == element.points[2]
             IN  IF InHandle(x, y, 2 * start.x, 2 * start.y) THEN "start"
                 ELSE IF InHandle(x, y, 2 * end.x, 2 * end.y) THEN "end"
                 ELSE "null"
    ELSE IF element.type = "text" THEN
        IF ~(IsNum(element.x) /\ IsNum(element.y)) THEN "null"
        ELSE LET ex == Num(element.x)
                 ey == Num(element.y)
                 textWidth == Len(TextOf(element)) * 8
                 textHeight == 16
             IN  IF InHandle(x, y, 2 * ex, 2 * (ey - textHeight)) THEN "top-left"
                 ELSE IF InHandle(x, y, 2 * (ex + textWidth), 2 * (ey - textHeight))
                      THEN "top-right"
                 ELSE IF InHandle(x, y, 2 * ex, 2 * ey) THEN "bottom-left"
                 ELSE IF InHandle(x, y, 2 * (ex + textWidth), 2 * ey) THEN "bottom-right"
                 ELSE IF InHandle(x, y, 2 * ex + textWidth, 2 * (ey - textHeight - 30))
                      THEN "rotation"
                 ELSE "null"
    ELSE "null"

---------------------------------------------------------------------------
(* Copies and ids.                                                         *)

\* what JSON.stringify writes for a number and JSON.parse reads back: NaN
\* becomes null, an undefined field is left out
jsonNumber(v) == IF v = NaN THEN Null ELSE v

\* JSON.parse(JSON.stringify(el))
jsonClone(el) ==
    [el EXCEPT !.x = jsonNumber(el.x), !.y = jsonNumber(el.y),
               !.width = jsonNumber(el.width), !.height = jsonNumber(el.height),
               !.radius = jsonNumber(el.radius),
               !.strokeWidth = jsonNumber(el.strokeWidth),
               !.rotation = jsonNumber(el.rotation)]

\* Date.now().toString(), read at time t
clockId(t) == << t, 0 >>

\* Date.now().toString() + Math.random().toString(36).substr(2, 9): the k-th
\* suffix drawn.  Two draws of Math.random() are taken to differ.
randomId(t, k) == << t, k >>

---------------------------------------------------------------------------
(* The state a handler's closure sees, and handleMouseDown.                *)

State ==
    [history |-> history, selectedElement |-> selectedElement, tool |-> tool,
     action |-> action, startPoint |-> startPoint, activeHandle |-> activeHandle,
     selectionBox |-> selectionBox, multiSelectMode |-> multiSelectMode,
     clipboard |-> clipboard, now |-> now, rnd |-> rnd, reading |-> reading,
     timers |-> timers, textarea |-> textarea, zoom |-> zoom]

\* elements.map((el) => ({...el, selected: false}))
deselectAll(elements) == MapSeq(LAMBDA el : [el EXCEPT !.selected = "false"], elements)

\* mouseDownOnElement where a Shift-click leaves a selected element selected
mouseDownOnElement_noToggle(s, clickedElement, x, y, isShiftPressed, isAltPressed, t) ==
    LET elements == s.history.present
        moving == [s EXCEPT !.action = "moving", !.startPoint = << Point(x, y) >>]
    IN  IF isAltPressed THEN
            LET duplicatedElement ==
                    [jsonClone(clickedElement) EXCEPT !.id = clockId(t),
                                                      !.selected = "true"]
                updatedElements ==
                    MapSeq(LAMBDA el :
                             [el EXCEPT !.selected =
                                 IF isShiftPressed THEN el.selected
                                 ELSE Bool(el.id = clickedElement.id)],
                           elements)
            IN  [moving EXCEPT
                   !.history = updateHistory(s.history,
                                             Append(updatedElements, duplicatedElement)),
                   !.selectedElement = << duplicatedElement >>,
                   !.now = t]
        ELSE IF ~isShiftPressed /\ ~Truthy(clickedElement.selected) THEN
            LET updatedElements ==
                    MapSeq(LAMBDA el :
                             [el EXCEPT !.selected = Bool(el.id = clickedElement.id)],
                           elements)
            IN  [moving EXCEPT
                   !.history = updateHistory(s.history, updatedElements),
                   !.selectedElement = << clickedElement >>]
        ELSE
            LET updatedElements ==
                    MapSeq(LAMBDA el :
                             IF el.id = clickedElement.id
                             THEN [el EXCEPT !.selected = "true"]
                             ELSE [el EXCEPT !.selected =
                                      IF isShiftPressed THEN el.selected ELSE "false"],
                           elements)
            IN  [moving EXCEPT
                   !.history = updateHistory(s.history, updatedElements),
                   !.selectedElement =
                       IF ~Truthy(clickedElement.selected) \/ ~isShiftPressed
                       THEN << clickedElement >> ELSE s.selectedElement]

\* handleMouseDown, the pointer is on clickedElement
mouseDownOnElement(s, clickedElement, x, y, isShiftPressed, isAltPressed, t) ==
    LET elements == s.history.present
        moving == [s EXCEPT !.action = "moving", !.startPoint = << Point(x, y) >>]
    IN  IF isAltPressed THEN
            LET duplicatedElement ==
                    [jsonClone(clickedElement) EXCEPT !.id = clockId(t),
                                                      !.selected = "true"]
                updatedElements ==
                    MapSeq(LAMBDA el :
                             [el EXCEPT !.selected =
                                 IF isShiftPressed THEN el.selected
                                 ELSE Bool(el.id = clickedElement.id)],
                           elements)
            IN  [moving EXCEPT
                   !.history = updateHistory(s.history,
                                             Append(updatedElements, duplicatedElement)),
                   !.selectedElement = << duplicatedElement >>,
                   !.now = t]
        ELSE IF ~isShiftPressed /\ ~Truthy(clickedElement.selected) THEN
            LET updatedElements ==
                    MapSeq(LAMBDA el :
                             [el EXCEPT !.selected = Bool(el.id = clickedElement.id)],
                           elements)
            IN  [moving EXCEPT
                   !.history = updateHistory(s.history, updatedElements),
                   !.selectedElement = << clickedElement >>]
        ELSE
            LET updatedElements ==
                    MapSeq(LAMBDA el :
                             IF el.id = clickedElement.id
                             THEN [el EXCEPT !.selected =
                                      IF isShiftPressed THEN Not(el.selected) ELSE "true"]
                             ELSE [el EXCEPT !.selected =
                                      IF isShiftPressed THEN el.selected ELSE "false"],
                           elements)
            IN  [moving EXCEPT
                   !.history = updateHistory(s.history, updatedElements),
                   !.selectedElement =
                       IF ~Truthy(clickedElement.selected) \/ ~isShiftPressed
                       THEN << clickedElement >> ELSE s.selectedElement]

\* the element a pointer-down on empty space creates for the active tool
newElementFor(tl, x, y, t) ==
    IF tl = "freehand" THEN
        Element(clockId(t), "line", 0, 0, Undefined, Undefined, Undefined,
                << Point(x, y) >>, NoText, fill, color, strokeWidth, "undefined", 0)
    ELSE IF tl = "text" THEN
        Element(clockId(t), "text", x, y, Undefined, Undefined, Undefined,
                << >>, PlaceholderText, color, "transparent", 0, "true", 0)
    ELSE
        Element(clockId(t), tl, x, y, 0, 0,
                IF tl = "circle" THEN 0 ELSE Undefined,
                IF tl \in {"line", "arrow"} THEN << Point(x, y), Point(x, y) >> ELSE << >>,
                NoText, fill, color, strokeWidth, "undefined", 0)

\* handleMouseDown, the pointer is on no element.  Both updateHistory calls
\* of one handler run on the history in turn; the second is given the
\* `elements` of the closure, not the deselected ones.
mouseDownOnEmpty(s, x, y, isShiftPressed, t) ==
    LET elements == s.history.present
        clear == ~isShiftPressed /\ Some(elements, LAMBDA el : Truthy(el.selected))
        s1 == IF clear
              THEN [s EXCEPT !.history = updateHistory(s.history, deselectAll(elements)),
                             !.selectedElement = << >>]
              ELSE s
        newElement == newElementFor(s.tool, x, y, t)
    IN  IF s.tool = "selection" \/ isShiftPressed THEN
            [s1 EXCEPT !.action = "selecting",
                       !.selectionBox = << [startX |-> x, startY |-> y,
                                            width |-> 0, height |-> 0] >>]
        ELSE IF s.tool = "text" THEN
            [s1 EXCEPT !.action = "drawing",
                       !.startPoint = << Point(x, y) >>,
                       !.history = updateHistory(s1.history,
                                                 Append(deselectAll(elements), newElement)),
                       !.selectedElement = << newElement >>,
                       !.timers = Append(s.timers, Point(x, y)),
                       !.now = t]
        ELSE
            [s1 EXCEPT !.action = "drawing",
                       !.startPoint = << Point(x, y) >>,
                       !.history = updateHistory(s1.history, Append(elements, newElement)),
                       !.now = t]

handleMouseDown(s, x, y, isShiftPressed, isAltPressed, t) ==
    LET s0 == [s EXCEPT !.multiSelectMode = isShiftPressed]
        handle == IF s.selectedElement = << >> THEN "null"
                  ELSE getHandleAtPosition(x, y, s.selectedElement[1])
        clickedElement ==
            Find(s.history.present, LAMBDA element : isPointInElement(x, y, element))
    IN  IF handle # "null" THEN
            [s0 EXCEPT !.action = "resizing", !.activeHandle = handle,
                       !.startPoint = << Point(x, y) >>]
        ELSE IF clickedElement # << >> THEN
            mouseDownOnElement(s0, clickedElement[1], x, y, isShiftPressed,
                               isAltPressed, t)
        ELSE mouseDownOnEmpty(s0, x, y, isShiftPressed, t)

---------------------------------------------------------------------------
(* handleMouseMove.  Shift-snapping to 45 degrees, the rotation angle and *)
(* the aspect ratio are floating-point results; they are modelled where   *)
(* the result is an integer, and the inputs are chosen among those.       *)

\* a / b where b divides a
ExactDiv(a, b) == CHOOSE q \in (0 - Abs(a))..Abs(a) : q * b = a

\* Math.round(a / b) for b > 0: the nearest integer, a half rounds up
RoundDiv(a, b) == (2 * a + b) \div (2 * b)

\* Math.atan2(dy, dx) * (180 / Math.PI), where it is a multiple of 45
atan2Degrees(dy, dx) ==
    CASE dy = 0 /\ dx >= 0 -> 0
      [] dy = 0 /\ dx < 0 -> 180
      [] dx = 0 /\ dy > 0 -> 90
      [] dx = 0 /\ dy < 0 -> 0 - 90
      [] dx > 0 /\ dy = dx -> 45
      [] dx > 0 /\ dy = 0 - dx -> 0 - 45
      [] dx < 0 /\ dy = 0 - dx -> 135
      [] dx < 0 /\ dy = dx -> 0 - 135

\* start + distance * (cos, sin) of the snapped angle, for a pointer straight
\* to the right of `start` (angle 0, where cos is 1 and sin is 0)
snapTo45(start, x, y) ==
    CASE y = start.y /\ x >= start.x -> Point(x, y)

\* the last element while drawing, for the active tool
drawLast(s, el, x, y, shiftKey) ==
    IF s.tool = "freehand" /\ el.points # << >> THEN
        [el EXCEPT !.points = Append(el.points, Point(x, y))]
    ELSE IF s.tool = "rectangle" THEN
        IF shiftKey THEN
            LET width == Minus(x, el.x)
                height == Minus(y, el.y)
                size == IF IsNum(width) /\ IsNum(height)
                        THEN Max(Abs(width), Abs(height)) ELSE NaN
            IN  [el EXCEPT !.width = IF IsNum(width) /\ width >= 0
                                     THEN size ELSE Minus(0, size),
                           !.height = IF IsNum(height) /\ height >= 0
                                      THEN size ELSE Minus(0, size)]
        ELSE [el EXCEPT !.width = Minus(x, el.x), !.height = Minus(y, el.y)]
    ELSE IF s.tool = "circle" THEN
        LET dx == Minus(x, el.x)
            dy == Minus(y, el.y)
        IN  [el EXCEPT !.radius = IF IsNum(dx) /\ IsNum(dy)
                                  THEN Sqrt(dx * dx + dy * dy) ELSE NaN]
    ELSE IF s.tool \in {"line", "arrow"} /\ el.points # << >> THEN
        IF shiftKey
        THEN [el EXCEPT !.points = << el.points[1], snapTo45(el.points[1], x, y) >>]
        ELSE [el EXCEPT !.points = << el.points[1], Point(x, y) >>]
    ELSE el

\* moveElement without the test of el.selected
moveElement_unselectedToo(el, dx, dy) ==
    IF el.type \in {"rectangle", "text", "circle"} THEN
        [el EXCEPT !.x = Plus(el.x, dx), !.y = Plus(el.y, dy)]
    ELSE IF el.type \in {"line", "arrow"} /\ el.points # << >> THEN
        [el EXCEPT !.points =
            MapSeq(LAMBDA point : Point(point.x + dx, point.y + dy), el.points)]
    ELSE el

\* a selected element moved by (dx, dy)
moveElement(el, dx, dy) ==
    IF ~Truthy(el.selected) THEN el
    ELSE IF el.type \in {"rectangle", "text", "circle"} THEN
        [el EXCEPT !.x = Plus(el.x, dx), !.y = Plus(el.y, dy)]
    ELSE IF el.type \in {"line", "arrow"} /\ el.points # << >> THEN
        [el EXCEPT !.points =
            MapSeq(LAMBDA point : Point(point.x + dx, point.y + dy), el.points)]
    ELSE el

\* the centre the rotation handle turns an element about, doubled
rotationCenter2(el) ==
    IF el.type = "rectangle" THEN
        Point(2 * Num(el.x) + OrZero(el.width), 2 * Num(el.y) + OrZero(el.height))
    ELSE IF el.type = "text" THEN
        Point(2 * Num(el.x) + Len(TextOf(el)) * 8, 2 * (Num(el.y) - 8))
    ELSE IF el.type \in {"line", "arrow"} /\ Len(el.points) >= 2 THEN
        Point(el.points[1].x + el.points[2].x, el.points[1].y + el.points[2].y)
    ELSE Point(2 * Num(el.x), 2 * Num(el.y))

\* tan(7.5), tan(22.5), ... tan(82.5) degrees, times 100000
Tan15 == << 13165, 41421, 76733, 130323, 241421, 759575 >>

\* Math.round(Math.atan(a / b) * (180 / Math.PI) / 15) * 15 for a, b >= 0:
\* 15 times the number of the angles 7.5, 22.5, ... 82.5 below atan(a / b)
nearest15(a, b) ==
    15 * Cardinality({j \in 1..6 : a * 100000 > b * Tan15[j]})

\* Math.round((Math.atan2(dy, dx) * (180 / Math.PI) + 90) / 15) * 15
roundRotation15(dy, dx) ==
    LET phi == nearest15(Abs(dy), Abs(dx))
        angle == IF dy >= 0 THEN (IF dx >= 0 THEN phi ELSE 180 - phi)
                 ELSE (IF dx >= 0 THEN 0 - phi ELSE phi - 180)
    IN  angle + 90

\* rotateElement without the quarter turn that makes 0 degrees point up
rotateElement_fromRight(el, x, y, shiftKey) ==
    IF ~(IsNum(el.x) /\ IsNum(el.y))
       /\ ~(el.type \in {"line", "arrow"} /\ Len(el.points) >= 2)
    THEN [el EXCEPT !.rotation = NaN]
    ELSE LET c == rotationCenter2(el)
         IN  [el EXCEPT !.rotation =
                 IF shiftKey THEN roundRotation15(2 * y - c.y, 2 * x - c.x) - 90
                 ELSE atan2Degrees(2 * y - c.y, 2 * x - c.x)]

\* the element under the rotation handle
rotateElement(el, x, y, shiftKey) ==
    IF ~(IsNum(el.x) /\ IsNum(el.y))
       /\ ~(el.type \in {"line", "arrow"} /\ Len(el.points) >= 2)
    THEN [el EXCEPT !.rotation = NaN]
    ELSE LET c == rotationCenter2(el)
         IN  [el EXCEPT !.rotation =
                 IF shiftKey THEN roundRotation15(2 * y - c.y, 2 * x - c.x)
                 ELSE atan2Degrees(2 * y - c.y, 2 * x - c.x) + 90]

\* resizeRectangle without the `if (newWidth < 0)` and `if (newHeight < 0)` blocks
resizeRectangle_noFlip(el, handle, x, y, shiftKey) ==
    LET w == OrZero(el.width)
        h == OrZero(el.height)
        right == Plus(el.x, w)
        bottom == Plus(el.y, h)
        newX0 == IF handle \in {"top-left", "left", "bottom-left"} THEN x ELSE el.x
        newY0 == IF handle \in {"top-left", "top", "top-right"} THEN y ELSE el.y
        newWidth0 ==
            IF handle \in {"top-left", "left", "bottom-left"} THEN Minus(right, x)
            ELSE IF handle \in {"top-right", "right", "bottom-right"} THEN Minus(x, el.x)
            ELSE w
        newHeight0 ==
            IF handle \in {"top-left", "top", "top-right"} THEN Minus(bottom, y)
            ELSE IF handle \in {"bottom-left", "bottom", "bottom-right"}
                 THEN Minus(y, el.y)
            ELSE h
        keepRatio == shiftKey /\ newWidth0 # 0 /\ newHeight0 # 0
        \* aspectRatio = (el.width || 1) / (el.height || 1)
        ratioW == IF w = 0 THEN 1 ELSE w
        ratioH == IF h = 0 THEN 1 ELSE h
        vertical == handle \in {"top-left", "top", "top-right",
                                "bottom-left", "bottom", "bottom-right"}
        newWidth1 ==
            IF keepRatio /\ vertical
            THEN (IF IsNum(newHeight0) THEN ExactDiv(newHeight0 * ratioW, ratioH) ELSE NaN)
            ELSE newWidth0
        newHeight1 ==
            IF keepRatio /\ ~vertical
            THEN (IF IsNum(newWidth0) THEN ExactDiv(newWidth0 * ratioH, ratioW) ELSE NaN)
            ELSE newHeight0
    IN  [el EXCEPT !.x = newX0, !.y = newY0,
                   !.width = newWidth1, !.height = newHeight1]

\* a rectangle under one of its eight resize handles
resizeRectangle(el, handle, x, y, shiftKey) ==
    LET w == OrZero(el.width)
        h == OrZero(el.height)
        right == Plus(el.x, w)
        bottom == Plus(el.y, h)
        newX0 == IF handle \in {"top-left", "left", "bottom-left"} THEN x ELSE el.x
        newY0 == IF handle \in {"top-left", "top", "top-right"} THEN y ELSE el.y
        newWidth0 ==
            IF handle \in {"top-left", "left", "bottom-left"} THEN Minus(right, x)
            ELSE IF handle \in {"top-right", "right", "bottom-right"} THEN Minus(x, el.x)
            ELSE w
        newHeight0 ==
            IF handle \in {"top-left", "top", "top-right"} THEN Minus(bottom, y)
            ELSE IF handle \in {"bottom-left", "bottom", "bottom-right"}
                 THEN Minus(y, el.y)
            ELSE h
        keepRatio == shiftKey /\ newWidth0 # 0 /\ newHeight0 # 0
        \* aspectRatio = (el.width || 1) / (el.height || 1)
        ratioW == IF w = 0 THEN 1 ELSE w
        ratioH == IF h = 0 THEN 1 ELSE h
        vertical == handle \in {"top-left", "top", "top-right",
                                "bottom-left", "bottom", "bottom-right"}
        newWidth1 ==
            IF keepRatio /\ vertical
            THEN (IF IsNum(newHeight0) THEN ExactDiv(newHeight0 * ratioW, ratioH) ELSE NaN)
            ELSE newWidth0
        newHeight1 ==
            IF keepRatio /\ ~vertical
            THEN (IF IsNum(newWidth0) THEN ExactDiv(newWidth0 * ratioH, ratioW) ELSE NaN)
            ELSE newHeight0
        flipX == IsNum(newWidth1) /\ newWidth1 < 0
        flipY == IsNum(newHeight1) /\ newHeight1 < 0
    IN  [el EXCEPT !.x = IF flipX THEN Plus(newX0, newWidth1) ELSE newX0,
                   !.y = IF flipY THEN Plus(newY0, newHeight1) ELSE newY0,
                   !.width = IF flipX THEN Abs(newWidth1) ELSE newWidth1,
                   !.height = IF flipY THEN Abs(newHeight1) ELSE newHeight1]

\* the element under a resize handle other than the rotation handle
resizeElement(el, handle, x, y, shiftKey) ==
    IF el.type = "rectangle" THEN resizeRectangle(el, handle, x, y, shiftKey)
    ELSE IF el.type = "circle" THEN
        [el EXCEPT !.radius =
            IF handle \in {"top", "bottom"}
            THEN (IF IsNum(el.y) THEN Abs(y - Num(el.y)) ELSE NaN)
            ELSE IF handle \in {"left", "right"}
            THEN (IF IsNum(el.x) THEN Abs(x - Num(el.x)) ELSE NaN)
            ELSE OrZero(el.radius)]
    ELSE IF el.type \in {"line", "arrow"} /\ el.points # << >> THEN
        IF handle = "start" /\ Len(el.points) > 0 THEN
            IF shiftKey /\ Len(el.points) > 1
            THEN [el EXCEPT !.points[1] =
                     \* end - distance * (cos, sin): the pointer straight left of end
                     CASE y = el.points[2].y /\ x <= el.points[2].x -> Point(x, y)]
            ELSE [el EXCEPT !.points[1] = Point(x, y)]
        ELSE IF handle = "end" /\ Len(el.points) > 1 THEN
            IF shiftKey
            THEN [el EXCEPT !.points[2] = snapTo45(el.points[1], x, y)]
            ELSE [el EXCEPT !.points[2] = Point(x, y)]
        ELSE el
    ELSE IF el.type = "text" THEN
        [el EXCEPT !.x = IF handle \in {"top-left", "bottom-left"} THEN x ELSE el.x,
                   !.y = IF handle \in {"top-left", "top-right"} THEN y + 16 ELSE el.y]
    ELSE el

handleMouseMove(s, x, y, shiftKey) ==
    LET elements == s.history.present
    IN  IF s.action = "none" \/ s.startPoint = << >> THEN s
        ELSE IF s.action = "selecting" THEN
            IF s.selectionBox = << >> THEN s
            ELSE [s EXCEPT !.selectionBox =
                     << [s.selectionBox[1] EXCEPT
                           !.width = x - s.selectionBox[1].startX,
                           !.height = y - s.selectionBox[1].startY] >>]
        ELSE IF s.action = "drawing" THEN
            IF elements = << >> THEN s
            ELSE LET n == Len(elements)
                     drawn == drawLast(s, elements[n], x, y, shiftKey)
                     drawing ==
                         \/ s.tool = "freehand" /\ elements[n].points # << >>
                         \/ s.tool \in {"rectangle", "circle"}
                         \/ s.tool \in {"line", "arrow"} /\ elements[n].points # << >>
                 IN  IF drawing
                     THEN [s EXCEPT !.history =
                              setPresent(s.history, [elements EXCEPT ![n] = drawn])]
                     ELSE s
        ELSE IF s.action = "moving" THEN
            LET dx == x - s.startPoint[1].x
                dy == y - s.startPoint[1].y
                constrainedDx == IF shiftKey THEN (IF Abs(dx) > Abs(dy) THEN dx ELSE 0)
                                 ELSE dx
                constrainedDy == IF shiftKey THEN (IF Abs(dy) > Abs(dx) THEN dy ELSE 0)
                                 ELSE dy
                updatedElements ==
                    MapSeq(LAMBDA el : moveElement(el, constrainedDx, constrainedDy),
                           elements)
                updatedSelectedElement ==
                    IF s.selectedElement # << >> /\ Truthy(s.selectedElement[1].selected)
                    THEN Find(updatedElements,
                              LAMBDA el : el.id = s.selectedElement[1].id)
                    ELSE << >>
            IN  [s EXCEPT !.history = setPresent(s.history, updatedElements),
                          !.selectedElement =
                              IF updatedSelectedElement # << >>
                              THEN updatedSelectedElement ELSE s.selectedElement,
                          !.startPoint = << Point(x, y) >>]
        ELSE IF s.action = "resizing" /\ s.selectedElement # << >>
                /\ s.activeHandle # "null" THEN
            LET updatedElements ==
                    MapSeq(LAMBDA el :
                             IF el.id # s.selectedElement[1].id THEN el
                             ELSE IF s.activeHandle = "rotation"
                                  THEN rotateElement(el, x, y, shiftKey)
                                  ELSE resizeElement(el, s.activeHandle, x, y, shiftKey),
                           elements)
                updatedElement ==
                    Find(updatedElements, LAMBDA el : el.id = s.selectedElement[1].id)
            IN  [s EXCEPT !.history = setPresent(s.history, updatedElements),
                          !.selectedElement =
                              IF updatedElement # << >>
                              THEN updatedElement ELSE s.selectedElement]
        ELSE s

---------------------------------------------------------------------------
(* handleMouseUp (also the handler of mouseleave).                         *)

isElementInSelectionBox(element, box) ==
    LET selectionLeft == IF box.width >= 0 THEN box.startX ELSE box.startX + box.width
        selectionRight == IF box.width >= 0 THEN box.startX + box.width ELSE box.startX
        selectionTop == IF box.height >= 0 THEN box.startY ELSE box.startY + box.height
        selectionBottom == IF box.height >= 0 THEN box.startY + box.height ELSE box.startY
    IN  IF element.type = "rectangle" THEN
            /\ IsNum(element.x) /\ IsNum(element.y)
            /\ Num(element.x) >= selectionLeft
            /\ Num(element.x) + OrZero(element.width) <= selectionRight
            /\ Num(element.y) >= selectionTop
            /\ Num(element.y) + OrZero(element.height) <= selectionBottom
        ELSE IF element.type = "circle" THEN
            /\ IsNum(element.x) /\ IsNum(element.y)
            /\ Num(element.x) - OrZero(element.radius) >= selectionLeft
            /\ Num(element.x) + OrZero(element.radius) <= selectionRight
            /\ Num(element.y) - OrZero(element.radius) >= selectionTop
            /\ Num(element.y) + OrZero(element.radius) <= selectionBottom
        ELSE IF element.type = "text" THEN
            LET textWidth == Len(TextOf(element)) * 8
                textHeight == 16
            IN  /\ IsNum(element.x) /\ IsNum(element.y)
                /\ Num(element.x) >= selectionLeft
                /\ Num(element.x) + textWidth <= selectionRight
                /\ Num(element.y) - textHeight >= selectionTop
                /\ Num(element.y) <= selectionBottom
        ELSE IF element.type \in {"line", "arrow"} /\ Len(element.points) >= 2 THEN
            LET start == element.points[1]
                end == element.points[2]
            IN  /\ start.x >= selectionLeft /\ start.x <= selectionRight
                /\ start.y >= selectionTop /\ start.y <= selectionBottom
                /\ end.x >= selectionLeft /\ end.x <= selectionRight
                /\ end.y >= selectionTop /\ end.y <= selectionBottom
        ELSE FALSE

handleMouseUp(s) ==
    LET elements == s.history.present
        s1 ==
            IF s.action \in {"drawing", "moving", "resizing"} THEN
                [s EXCEPT !.history = commitGesture(s.history)]
            ELSE IF s.action = "selecting" /\ s.selectionBox # << >> THEN
                LET box == s.selectionBox[1]
                    isSelectionTooSmall == Abs(box.width) < 5 /\ Abs(box.height) < 5
                    updatedElements ==
                        MapSeq(LAMBDA el :
                                 LET isInside == isElementInSelectionBox(el, box)
                                 IN  IF s.multiSelectMode
                                     THEN [el EXCEPT !.selected =
                                              IF isInside THEN Not(el.selected)
                                              ELSE el.selected]
                                     ELSE [el EXCEPT !.selected = Bool(isInside)],
                               elements)
                IN  IF isSelectionTooSmall THEN [s EXCEPT !.selectionBox = << >>]
                    ELSE [s EXCEPT
                            !.history = updateHistory(s.history, updatedElements),
                            !.selectedElement =
                                Find(updatedElements, LAMBDA el : Truthy(el.selected)),
                            !.selectionBox = << >>]
            ELSE s
    IN  [s1 EXCEPT !.action = "none", !.startPoint = << >>, !.activeHandle = "null"]

\* whether handleMouseUp pushes onto past
mouseUpCommits(s) ==
    \/ s.action \in {"drawing", "moving", "resizing"}
    \/ /\ s.action = "selecting" /\ s.selectionBox # << >>
       /\ ~(Abs(s.selectionBox[1].width) < 5 /\ Abs(s.selectionBox[1].height) < 5)

---------------------------------------------------------------------------
(* handleKeyDown, one operator per shortcut, and the toolbar buttons that  *)
(* run the same code.                                                      *)

isSelected(el) == Truthy(el.selected)

\* Escape
keyEscape(s) ==
    LET elements == s.history.present
    IN  IF Some(elements, isSelected)
        THEN [s EXCEPT !.history = updateHistory(s.history, deselectAll(elements)),
                       !.selectedElement = << >>]
        ELSE s

\* Ctrl+A
keySelectAll(s) ==
    LET elements == s.history.present
        updatedElements == MapSeq(LAMBDA el : [el EXCEPT !.selected = "true"], elements)
    IN  [s EXCEPT !.history = updateHistory(s.history, updatedElements),
                  !.selectedElement =
                      IF s.selectedElement = << >> /\ Len(updatedElements) > 0
                      THEN << updatedElements[1] >> ELSE s.selectedElement]

\* selectedElements.map((el) => ({...JSON.parse(JSON.stringify(el)), id: ...}))
\* copiedElements without `id: Date.now().toString() + Math.random()...`
copiedElements_keepIds(s, t) ==
    LET selectedElements == SelectSeq(s.history.present, isSelected)
    IN  [i \in 1..Len(selectedElements) |-> jsonClone(selectedElements[i])]

copiedElements(s, t) ==
    LET selectedElements == SelectSeq(s.history.present, isSelected)
    IN  [i \in 1..Len(selectedElements) |->
            [jsonClone(selectedElements[i]) EXCEPT !.id = randomId(t, s.rnd + i)]]

\* Ctrl+C and the copy button
copy(s, t) ==
    LET copied == copiedElements(s, t)
    IN  IF Len(copied) > 0
        THEN [s EXCEPT !.clipboard = copied, !.rnd = s.rnd + Len(copied), !.now = t]
        ELSE s

\* a cut without the `selectedElements.length > 0` test
cut_unguarded(s, t) ==
    [s EXCEPT !.clipboard = copiedElements(s, t),
              !.rnd = s.rnd + Len(copiedElements(s, t)), !.now = t,
              !.history = updateHistory(s.history,
                              SelectSeq(s.history.present, LAMBDA el : ~Truthy(el.selected))),
              !.selectedElement = << >>]

\* Ctrl+X and the cut button
cut(s, t) ==
    LET copied == copiedElements(s, t)
        updatedElements == SelectSeq(s.history.present, LAMBDA el : ~isSelected(el))
    IN  IF Len(copied) > 0
        THEN [s EXCEPT !.clipboard = copied, !.rnd = s.rnd + Len(copied), !.now = t,
                       !.history = updateHistory(s.history, updatedElements),
                       !.selectedElement = << >>]
        ELSE s

\* the copy of the i-th of `source`, offset by (20, 20), that paste and
\* duplicate add
offsetCopy(s, source, i, t) ==
    LET el == source[i]
        newElement == [jsonClone(el) EXCEPT !.id = randomId(t, s.rnd + i),
                                           !.selected = "true",
                                           !.x = Plus(el.x, 20),
                                           !.y = Plus(el.y, 20)]
    IN  IF el.type \in {"line", "arrow"} /\ el.points # << >>
        THEN [newElement EXCEPT !.points =
                 MapSeq(LAMBDA point : Point(point.x + 20, point.y + 20), el.points)]
        ELSE newElement

\* addCopies onto `elements` in place of `deselectedElements`
addCopies_keepsSelection(s, source, t) ==
    LET newElements == [i \in 1..Len(source) |-> offsetCopy(s, source, i, t)]
    IN  [s EXCEPT !.history = updateHistory(s.history, s.history.present \o newElements),
                  !.selectedElement = << newElements[1] >>,
                  !.rnd = s.rnd + Len(source), !.now = t]

\* updateHistory([...deselectedElements, ...newElements]) and the new primary
addCopies(s, source, t) ==
    LET newElements == [i \in 1..Len(source) |-> offsetCopy(s, source, i, t)]
    IN  [s EXCEPT !.history = updateHistory(s.history,
                                  deselectAll(s.history.present) \o newElements),
                  !.selectedElement = << newElements[1] >>,
                  !.rnd = s.rnd + Len(source), !.now = t]

\* a paste that leaves the pasted copies on the clipboard, so that the next
\* paste is offset from them
paste_updatesClipboard(s, t) ==
    IF Len(s.clipboard) > 0
    THEN LET pasted == addCopies(s, s.clipboard, t)
         IN  [pasted EXCEPT !.clipboard =
                 SubSeq(pasted.history.present, Len(s.history.present) + 1,
                        Len(pasted.history.present))]
    ELSE s

\* Ctrl+V and the paste button
paste(s, t) == IF Len(s.clipboard) > 0 THEN addCopies(s, s.clipboard, t) ELSE s

\* Ctrl+D
duplicate(s, t) ==
    LET selectedElements == SelectSeq(s.history.present, isSelected)
    IN  IF Len(selectedElements) > 0 THEN addCopies(s, selectedElements, t) ELSE s

handleDeleteSelectedElements(s) ==
    [s EXCEPT !.history = updateHistory(s.history,
                  SelectSeq(s.history.present, LAMBDA el : ~isSelected(el))),
              !.selectedElement = << >>]

\* Delete or Backspace
keyDelete(s) ==
    IF Some(s.history.present, isSelected) THEN handleDeleteSelectedElements(s) ELSE s

\* V, R, C, L, A, T, P and the toolbar's tool buttons
setTool(s, tl) == [s EXCEPT !.tool = tl]

\* Ctrl+Z and the undo button
keyUndo(s) == [s EXCEPT !.history = handleUndo(s.history)]

\* Ctrl+Y, Ctrl+Shift+Z and the redo button
keyRedo(s) == [s EXCEPT !.history = handleRedo(s.history)]

---------------------------------------------------------------------------
(* The properties panel and updateElementProperty.                         *)

Digits == << "0", "1", "2", "3", "4", "5", "6", "7", "8", "9" >>

IsDigit(c) == \E d \in 1..10 : Digits[d] = c

DigitValue(c) == (CHOOSE d \in 1..10 : Digits[d] = c) - 1

RECURSIVE parseDigits(_, _)
parseDigits(cs, acc) ==
    IF cs = << >> \/ ~IsDigit(Head(cs)) THEN acc
    ELSE parseDigits(Tail(cs), acc * 10 + DigitValue(Head(cs)))

\* Number.parseInt of the characters cs: an optional sign and the leading
\* digits, NaN when there is no digit
parseInt(cs) ==
    LET signed == cs # << >> /\ Head(cs) \in {"-", "+"}
        body == IF signed THEN Tail(cs) ELSE cs
    IN  IF body = << >> \/ ~IsDigit(Head(body)) THEN NaN
        ELSE IF signed /\ Head(cs) = "-" THEN 0 - parseDigits(body, 0)
        ELSE parseDigits(body, 0)

\* typeof value
typeOf(value) == IF value = Undefined THEN "undefined" ELSE "number"

\* "Ensure value is never undefined"
ensureDefined(value) ==
    IF value = Undefined
    THEN (IF typeOf(value) = "string" THEN "" ELSE
          IF typeOf(value) = "number" THEN 0 ELSE value)
    ELSE value

\* updateElementProperty applied to the primary only
updateElementProperty_primaryOnly(s, property, value0) ==
    LET elements == s.history.present
        value == ensureDefined(value0)
        updatedElements ==
            MapSeq(LAMBDA el : IF s.selectedElement # << >> /\ el.id = s.selectedElement[1].id
                               THEN [el EXCEPT ![property] = value]
                               ELSE el,
                   elements)
    IN  IF ~Some(elements, isSelected) THEN s
        ELSE [s EXCEPT !.history = updateHistory(s.history, updatedElements),
                       !.selectedElement =
                           IF s.selectedElement = << >> THEN << >>
                           ELSE << [s.selectedElement[1] EXCEPT ![property] = value] >>]

updateElementProperty(s, property, value0) ==
    LET elements == s.history.present
        value == ensureDefined(value0)
        updatedElements ==
            MapSeq(LAMBDA el : IF isSelected(el) THEN [el EXCEPT ![property] = value]
                               ELSE el,
                   elements)
    IN  IF ~Some(elements, isSelected) THEN s
        ELSE [s EXCEPT !.history = updateHistory(s.history, updatedElements),
                       !.selectedElement =
                           IF s.selectedElement = << >> THEN << >>
                           ELSE << [s.selectedElement[1] EXCEPT ![property] = value] >>]

\* the onChange of a number input of the panel
panelNumberInput(s, property, typed) == updateElementProperty(s, property, parseInt(typed))

\* the inputs the panel renders for its `element`, the primary: x, y and the
\* stroke width always, the others by the element's type
panelShows(s, property) ==
    LET type == IF s.selectedElement = << >> THEN "undefined"
                ELSE s.selectedElement[1].type
    IN  \/ property \in {"x", "y", "strokeWidth"}
        \/ property \in {"width", "height"} /\ type = "rectangle"
        \/ property = "radius" /\ type = "circle"
        \/ property = "rotation"
              /\ type \in {"rectangle", "circle", "text", "line", "arrow"}

\* what the input can hand to onChange: a number input any text of digits
\* with a sign, or nothing; the stroke width's range input a value of 1..20
panelAccepts(property, typed) ==
    property = "strokeWidth" => parseInt(typed) \in 1..20

---------------------------------------------------------------------------
(* Import.  A document is a file's text: its JSON syntax is right or not,  *)
(* and when it is, `json` is the array it denotes.                         *)

\* JSON.parse: [ok |-> FALSE] stands for the SyntaxError thrown
jsonParse(doc) ==
    IF doc.syntax THEN [ok |-> TRUE, value |-> doc.json] ELSE [ok |-> FALSE]

\* handleImport: the file goes to FileReader.readAsText
handleImport(s, doc) == [s EXCEPT !.reading = Append(s.reading, doc)]

\* an onload that adds the imported elements to the scene instead of replacing it
readerOnload_merges(s, i) ==
    LET importedElements == jsonParse(s.reading[i])
        rest == SubSeq(s.reading, 1, i - 1) \o SubSeq(s.reading, i + 1, Len(s.reading))
    IN  IF importedElements.ok
        THEN [s EXCEPT !.history = updateHistory(s.history,
                                       s.history.present \o importedElements.value),
                       !.reading = rest]
        ELSE [s EXCEPT !.reading = rest]

\* reader.onload of the i-th read in flight
readerOnload(s, i) ==
    LET importedElements == jsonParse(s.reading[i])
        rest == SubSeq(s.reading, 1, i - 1) \o SubSeq(s.reading, i + 1, Len(s.reading))
    IN  IF importedElements.ok
        THEN [s EXCEPT !.history = updateHistory(s.history, importedElements.value),
                       !.reading = rest]
        ELSE [s EXCEPT !.reading = rest]

---------------------------------------------------------------------------
(* The state after construction, and the actions: one per handler.         *)

EmptyHistory == [past |-> << >>, present |-> << >>, future |-> << >>]

\* the useState initial values of DrawingApp
Constructed ==
    [history |-> EmptyHistory, selectedElement |-> << >>, tool |-> "selection",
     action |-> "none", startPoint |-> << >>, activeHandle |-> "null",
     selectionBox |-> << >>, multiSelectMode |-> FALSE, clipboard |-> << >>,
     now |-> 0, rnd |-> 0, reading |-> << >>, timers |-> << >>,
     textarea |-> << >>, zoom |-> ZoomScale]

\* the program is in state s and no event has been handled yet
StartIn(s) ==
    /\ history = s.history
    /\ selectedElement = s.selectedElement
    /\ tool = s.tool
    /\ action = s.action
    /\ startPoint = s.startPoint
    /\ activeHandle = s.activeHandle
    /\ selectionBox = s.selectionBox
    /\ multiSelectMode = s.multiSelectMode
    /\ clipboard = s.clipboard
    /\ now = s.now
    /\ rnd = s.rnd
    /\ reading = s.reading
    /\ timers = s.timers
    /\ textarea = s.textarea
    /\ zoom = s.zoom
    /\ lastEvent = "none"
    /\ undone = FALSE
    /\ committed = FALSE
    /\ gestureStart = EmptyHistory
    /\ gestureKind = "none"
    /\ gestureMoves = 0
    /\ gestureShift = FALSE
    /\ nev = 0

\* the handler of event `ev` took the program to state s; `pushed` tells
\* whether it pushed a snapshot onto past
Becomes(s, ev, pushed) ==
    /\ history' = s.history
    /\ selectedElement' = s.selectedElement
    /\ tool' = s.tool
    /\ action' = s.action
    /\ startPoint' = s.startPoint
    /\ activeHandle' = s.activeHandle
    /\ selectionBox' = s.selectionBox
    /\ multiSelectMode' = s.multiSelectMode
    /\ clipboard' = s.clipboard
    /\ now' = s.now
    /\ rnd' = s.rnd
    /\ reading' = s.reading
    /\ timers' = s.timers
    /\ textarea' = s.textarea
    /\ zoom' = s.zoom
    /\ undone' = (lastEvent = "undo")
    /\ lastEvent' = ev
    /\ committed' = pushed

\* an event that is no pointer event ends the gesture the history variables follow
NoGesture ==
    /\ gestureStart' = EmptyHistory
    /\ gestureKind' = "none"
    /\ gestureMoves' = 0
    /\ gestureShift' = FALSE

\* whether handleMouseDown pushes onto past
mouseDownCommits(s, x, y, isShiftPressed) ==
    LET handle == IF s.selectedElement = << >> THEN "null"
                  ELSE getHandleAtPosition(x, y, s.selectedElement[1])
        hit == Some(s.history.present, LAMBDA element : isPointInElement(x, y, element))
    IN  /\ handle = "null"
        /\ \/ hit
           \/ ~isShiftPressed /\ Some(s.history.present, isSelected)
           \/ ~(s.tool = "selection" \/ isShiftPressed)

MouseDown(x, y, isShiftPressed, isAltPressed, t) ==
    LET s == handleMouseDown(State, x, y, isShiftPressed, isAltPressed, t)
    IN  /\ Becomes(s, "mouseDown", mouseDownCommits(State, x, y, isShiftPressed))
        /\ gestureStart' = history
        /\ gestureKind' = IF action = "none" THEN s.action ELSE "none"
        /\ gestureMoves' = 0
        /\ gestureShift' = FALSE

\* a pointer-move in Idle or without a start point returns at once
MouseMove(x, y, shiftKey) ==
    /\ action # "none" /\ startPoint # << >>
    /\ Becomes(handleMouseMove(State, x, y, shiftKey), "mouseMove", FALSE)
    /\ gestureMoves' = gestureMoves + 1
    /\ gestureShift' = (gestureShift \/ shiftKey)
    /\ UNCHANGED << gestureStart, gestureKind >>

\* mouseup and mouseleave
MouseUp ==
    /\ Becomes(handleMouseUp(State), "mouseUp", mouseUpCommits(State))
    /\ UNCHANGED << gestureStart, gestureKind, gestureMoves, gestureShift >>

SetTool(tl) == Becomes(setTool(State, tl), "setTool", FALSE) /\ NoGesture

Undo ==
    /\ Becomes(keyUndo(State), IF Len(history.past) = 0 THEN "undo-noop" ELSE "undo", FALSE)
    /\ NoGesture

Redo ==
    /\ Becomes(keyRedo(State), IF Len(history.future) = 0 THEN "redo-noop" ELSE "redo", FALSE)
    /\ NoGesture

anySelected == Some(history.present, isSelected)

Escape == Becomes(keyEscape(State), "escape", anySelected) /\ NoGesture

SelectAll == Becomes(keySelectAll(State), "selectAll", TRUE) /\ NoGesture

Copy(t) ==
    /\ Becomes(copy(State, t), IF anySelected THEN "copy" ELSE "copy-noop", FALSE)
    /\ NoGesture

Cut(t) ==
    /\ Becomes(cut(State, t), IF anySelected THEN "cut" ELSE "cut-noop", anySelected)
    /\ NoGesture

Paste(t) ==
    /\ Becomes(paste(State, t), IF Len(clipboard) > 0 THEN "paste" ELSE "paste-noop",
               Len(clipboard) > 0)
    /\ NoGesture

Duplicate(t) ==
    /\ Becomes(duplicate(State, t), IF anySelected THEN "duplicate" ELSE "duplicate-noop",
               anySelected)
    /\ NoGesture

Delete == Becomes(keyDelete(State), "delete", anySelected) /\ NoGesture

\* the panel is rendered while an element is selected
PanelInput(property, typed) ==
    /\ anySelected
    /\ panelShows(State, property)
    /\ panelAccepts(property, typed)
    /\ Becomes(panelNumberInput(State, property, typed), "panelInput", TRUE)
    /\ NoGesture

Import(doc) == Becomes(handleImport(State, doc), "import", FALSE) /\ NoGesture

Onload(i) ==
    /\ i \in 1..Len(reading)
    /\ Becomes(readerOnload(State, i),
               IF jsonParse(reading[i]).ok THEN "onload" ELSE "onload-error",
               jsonParse(reading[i]).ok)
    /\ NoGesture

\* an event counted against the bound
Counted(bound) == nev < bound /\ nev' = nev + 1

---------------------------------------------------------------------------
(* The editor under pointer gestures, undo and redo.  The exploration      *)
(* starts after construction, after a rectangle has been drawn from        *)
(* (10, 10) to (50, 40), or after that rectangle has been clicked.         *)

Drawn ==
    handleMouseUp(
        handleMouseMove(
            handleMouseDown(setTool(Constructed, "rectangle"), 10, 10, FALSE, FALSE, 1),
            50, 40, FALSE))

Clicked == handleMouseUp(handleMouseDown(Drawn, 30, 20, FALSE, FALSE, 1))

MaxEvents == 5

Tools == {"selection", "rectangle"}

\* on the rectangle's corners (inside it, and on its handles once it is the
\* primary) and outside it
Points == {Point(10, 10), Point(50, 40), Point(80, 60)}

MovePoints == {Point(50, 40), Point(80, 60)}

Init == \E s \in {Constructed, Drawn, Clicked} : StartIn(s)

Next ==
    \/ \E tl \in Tools : Counted(MaxEvents) /\ SetTool(tl)
    \/ \E p \in Points, t \in {now, now + 1} :
          Counted(MaxEvents) /\ MouseDown(p.x, p.y, FALSE, FALSE, t)
    \/ \E p \in MovePoints : Counted(MaxEvents) /\ MouseMove(p.x, p.y, FALSE)
    \/ Counted(MaxEvents) /\ MouseUp
    \/ Counted(MaxEvents) /\ Undo
    \/ Counted(MaxEvents) /\ Redo

Spec == Init /\ [][Next]_vars

---------------------------------------------------------------------------
(* The history manager under gestures: C1 to C4.                           *)

\* scenes to commit: none, the drawn rectangle, the rectangle selected
TestScenes == {<< >>, Drawn.history.present, Clicked.history.present}

\* C1: for every reachable history and every scene S, undo after commit(S)
\* makes present the scene that was present before the commit, field for
\* field, and redo after that undo makes present S again.
C1_UndoRedoInverse ==
    \A S \in TestScenes :
        LET afterCommit == updateHistory(history, S)
            afterUndo == handleUndo(afterCommit)
        IN  /\ afterUndo.present = history.present
            /\ handleRedo(afterUndo).present = S

\* C1, its case: a redo has just followed an undo that took back a commit,
\* and the scene the two stepped over differs from the one before it
C1_Witness ==
    /\ lastEvent = "redo"
    /\ undone
    /\ history.past # << >>
    /\ history.past[Len(history.past)] # history.present
    /\ handleUndo(updateHistory(history, << >>)).present = history.present

\* the last pointer-up ended a gesture of kind k that began in Idle
gestureEnded(k) == lastEvent = "mouseUp" /\ gestureKind = k

\* C2: after a completed Drawing, Moving or Resizing gesture a single undo
\* makes present the scene as it was just before the gesture's pointer-down.
C2_GestureIsOneUndoStep ==
    (\E k \in {"drawing", "moving", "resizing"} : gestureEnded(k))
        => handleUndo(history).present = gestureStart.present

\* C3: a complete Moving gesture with at least one pointer-move leaves past
\* exactly one entry longer than it was before the pointer-down (below the
\* cap), whatever the number of pointer-moves.
C3_MovingAddsOneEntry ==
    (/\ gestureEnded("moving")
     /\ gestureMoves >= 1
     /\ Len(gestureStart.past) + 2 <= MAX_HISTORY_LENGTH)
        => Len(history.past) = Len(gestureStart.past) + 1

\* what the handlers do instead: the pointer-down of a Moving gesture pushes
\* one snapshot, no pointer-move pushes any, and the pointer-up pushes one more
MovingPushesTwice ==
    (gestureKind = "moving" /\ Len(gestureStart.past) + 2 <= MAX_HISTORY_LENGTH)
        => Len(history.past) =
               Len(gestureStart.past) + (IF lastEvent = "mouseUp" THEN 2 ELSE 1)

\* C4: after a commit (updateHistory, or the pointer-up of a gesture), also
\* one that follows an undo, future is empty and a redo changes nothing in
\* past, present or future.
C4_CommitClearsRedo ==
    committed => (history.future = << >> /\ handleRedo(history) = history)

\* C4, its case: a handler has just committed, the handler before it was an
\* undo that took a step back, and the scene undone is not the present one
C4_Witness ==
    /\ committed
    /\ undone
    /\ history.future = << >>
    /\ gestureStart.future # << >>

---------------------------------------------------------------------------
(* The cap of the history: C5.  Numbered documents are imported one after  *)
(* the other, the k-th holding one rectangle at x = k, and undo and redo   *)
(* walk over the snapshots between two imports.                            *)

MaxCapCommits == 60

Min(a, b) == IF a <= b THEN a ELSE b

\* the scene the k-th document holds; scene 0 is the empty scene
CapScene(k) ==
    IF k = 0 THEN << >>
    ELSE << Element(clockId(k), "rectangle", k, 0, 10, 10, Undefined, << >>,
                    NoText, fill, color, strokeWidth, "false", 0) >>

CapDocument(k) == [syntax |-> TRUE, json |-> CapScene(k)]

\* undo, n times (an undo that changes nothing is a fixed point)
RECURSIVE undoTimes(_, _)
undoTimes(h, n) ==
    LET once == handleUndo(h)
    IN  IF n = 0 \/ once = h THEN h ELSE undoTimes(once, n - 1)

InitCap == StartIn(Constructed)

NextCap ==
    \/ /\ reading = << >> /\ history.future = << >>
       /\ Counted(MaxCapCommits) /\ Import(CapDocument(nev + 1))
    \/ Onload(1) /\ UNCHANGED nev
    \/ reading = << >> /\ Undo /\ UNCHANGED nev
    \/ reading = << >> /\ Redo /\ UNCHANGED nev

SpecCap == InitCap /\ [][NextCap]_vars

\* the number of documents committed so far
capCommits == nev - Len(reading)

\* C5: past and future never hold more than 50 snapshots; after k commits in
\* a row past holds the min(k, 50) most recent pre-commit scenes (for k = 60
\* the scenes 10 to 59), and no number of undos makes one of the scenes
\* dropped before them present again.
C5_HistoryCap ==
    /\ Len(history.past) <= MAX_HISTORY_LENGTH
    /\ Len(history.future) <= MAX_HISTORY_LENGTH
    /\ (reading = << >> /\ history.future = << >>) =>
           LET kept == Min(nev, MAX_HISTORY_LENGTH)
           IN  /\ history.present = CapScene(nev)
               /\ history.past = [i \in 1..kept |-> CapScene(nev - kept + i - 1)]
    /\ capCommits > MAX_HISTORY_LENGTH =>
           \A n \in 0..(MAX_HISTORY_LENGTH + 1) :
               LET scene == undoTimes(history, n).present
               IN  \A d \in 0..(capCommits - MAX_HISTORY_LENGTH - 1) :
                       scene # CapScene(d)

\* C5, its case: 60 commits have been made, past holds 50 snapshots of which
\* the oldest is scene 10, and 50 undos end at it
C5_Witness ==
    /\ nev = 60 /\ reading = << >> /\ history.future = << >>
    /\ Len(history.past) = 50
    /\ history.past[1] = CapScene(10)
    /\ undoTimes(history, 50).present = CapScene(10)
    /\ undoTimes(history, 51) = undoTimes(history, 50)

---------------------------------------------------------------------------
(* The clipboard and the ids: C6 and C7.  The exploration starts with the  *)
(* rectangle selected, or with a line from (10, 10) to (50, 40) selected;  *)
(* a pointer-down with Alt on an element clones it, on empty space it      *)
(* draws.                                                                  *)

LineDrawn ==
    handleMouseUp(
        handleMouseMove(
            handleMouseDown(setTool(Constructed, "line"), 10, 10, FALSE, FALSE, 1),
            50, 40, FALSE))

LineClicked == handleMouseUp(handleMouseDown(LineDrawn, 30, 25, FALSE, FALSE, 1))

MaxClipEvents == 4

\* on the rectangle and near the line; on neither, nor on a copy of them
ClipPoints == {Point(30, 20), Point(80, 10)}

InitClip == \E s \in {Clicked, LineClicked} : StartIn(s)

NextClip ==
    \/ Counted(MaxClipEvents) /\ Copy(now)
    \/ Counted(MaxClipEvents) /\ Cut(now)
    \/ Counted(MaxClipEvents) /\ Paste(now)
    \/ Counted(MaxClipEvents) /\ Duplicate(now)
    \/ Counted(MaxClipEvents) /\ Delete
    \/ \E p \in ClipPoints, t \in {now, now + 1} :
          Counted(MaxClipEvents) /\ MouseDown(p.x, p.y, FALSE, TRUE, t)
    \/ Counted(MaxClipEvents) /\ MouseUp
    \/ Counted(MaxClipEvents) /\ Undo
    \/ Counted(MaxClipEvents) /\ Redo

SpecClip == InitClip /\ [][NextClip]_vars

\* C6: after any sequence of draw, alt-drag-clone, paste, duplicate, cut,
\* delete, undo and redo, no two elements of present share an id.
C6_UniqueIds ==
    \A i, j \in 1..Len(history.present) :
        i # j => history.present[i].id # history.present[j].id

\* the elements a handler appended to the scene in this step
appended == SubSeq(history'.present, Len(history.present) + 1, Len(history'.present))

\* C7: a paste leaves the clipboard as it was and appends one element per
\* clipboard element, at that element's x and y plus 20 and, for a line or
\* an arrow, with every point of it moved by (20, 20); the offset is taken
\* from the clipboard, so every paste of one clipboard lands on the same place.
C7_PasteOffsetsFromClipboard ==
    [][lastEvent' = "paste" =>
          /\ clipboard' = clipboard
          /\ Len(appended) = Len(clipboard)
          /\ \A i \in 1..Len(clipboard) :
                /\ appended[i].x = Plus(clipboard[i].x, 20)
                /\ appended[i].y = Plus(clipboard[i].y, 20)
                /\ appended[i].type \in {"line", "arrow"} =>
                      /\ Len(appended[i].points) = Len(clipboard[i].points)
                      /\ \A k \in 1..Len(clipboard[i].points) :
                            appended[i].points[k] =
                                Point(clipboard[i].points[k].x + 20,
                                      clipboard[i].points[k].y + 20)]_vars

\* C7, its case: the clipboard has been pasted twice and both copies are in
\* the scene, at the same place, 20 right of and 20 below the clipboard's
C7_Witness ==
    /\ lastEvent = "paste"
    /\ Len(clipboard) > 0
    /\ \E i, j \in 1..Len(history.present) :
          /\ i < j
          /\ history.present[i].id # history.present[j].id
          /\ \A e \in {history.present[i], history.present[j]} :
                /\ e.x = Plus(clipboard[1].x, 20)
                /\ e.y = Plus(clipboard[1].y, 20)
                /\ e.type = "line" /\ e.points[2] = Point(clipboard[1].points[2].x + 20,
                                                         clipboard[1].points[2].y + 20)

---------------------------------------------------------------------------
(* Import: C8 and C9.  The files hold a rectangle, the empty array, text   *)
(* that is no JSON, and the array of one empty object.                     *)

ImportedRectangle ==
    Element(clockId(7), "rectangle", 100, 100, 30, 30, Undefined, << >>, NoText,
            fill, color, strokeWidth, "false", 0)

\* the element `{}` is read as: every field is absent
EmptyObject ==
    [id |-> NoId, type |-> "undefined", x |-> Undefined, y |-> Undefined,
     width |-> Undefined, height |-> Undefined, radius |-> Undefined,
     points |-> << >>, text |-> NoText, fill |-> "undefined",
     stroke |-> "undefined", strokeWidth |-> Undefined,
     isDragging |-> "undefined", selected |-> "undefined", rotation |-> Undefined]

Documents ==
    { [syntax |-> TRUE, json |-> << ImportedRectangle >>],
      [syntax |-> TRUE, json |-> << >>],
      [syntax |-> FALSE, json |-> << >>],
      [syntax |-> TRUE, json |-> << EmptyObject >>] }

\* a number: not NaN, undefined or null
IsNumber(v) == v \notin {NaN, Undefined, Null}

\* a record of type Element: the fields that are not optional are there
isElement(e) ==
    /\ e.id # NoId
    /\ e.type \in ElementTypes
    /\ IsNumber(e.x) /\ IsNumber(e.y)
    /\ e.fill # "undefined" /\ e.stroke # "undefined"
    /\ IsNumber(e.strokeWidth)
    /\ e.isDragging \in {"true", "false"}

\* a well-formed document: JSON for a sequence of element records
isWellFormed(doc) ==
    doc.syntax /\ \A i \in 1..Len(doc.json) : isElement(doc.json[i])

MaxImportEvents == 5

InitImport == \E s \in {Constructed, Clicked} : StartIn(s)

NextImport ==
    \/ \E doc \in Documents : Counted(MaxImportEvents) /\ Import(doc)
    \/ \E i \in 1..MaxImportEvents : Counted(MaxImportEvents) /\ Onload(i)
    \/ Counted(MaxImportEvents) /\ Undo
    \/ Counted(MaxImportEvents) /\ Redo

SpecImport == InitImport /\ [][NextImport]_vars

\* this step loaded the i-th of the documents being read
loads(i) ==
    /\ lastEvent' \in {"onload", "onload-error"}
    /\ i \in 1..Len(reading)
    /\ reading' = SubSeq(reading, 1, i - 1) \o SubSeq(reading, i + 1, Len(reading))

\* C8: a successful import makes present exactly the imported sequence,
\* pushes the previous present onto past as one entry and clears future; an
\* undo right after it makes present the scene before the import.
C8_ImportReplacesScene ==
    [][\A i \in 1..Len(reading) :
          (loads(i) /\ lastEvent' = "onload") =>
              /\ history'.present = reading[i].json
              /\ history'.past =
                     SliceLast(Append(history.past, history.present), MAX_HISTORY_LENGTH)
              /\ history'.future = << >>
              /\ handleUndo(history').present = history.present]_vars

\* C8, its case: a document with an element has been loaded over a scene
\* with another element, which is now the last snapshot of past
C8_Witness ==
    /\ lastEvent = "onload"
    /\ history.present = << ImportedRectangle >>
    /\ history.past # << >>
    /\ history.past[Len(history.past)] = Clicked.history.present
    /\ history.future = << >>

\* C9: importing a document that is not a well-formed sequence of element
\* records leaves past, present and future as they were, and present is a
\* sequence of element records afterwards.
C9_MalformedImportIgnored ==
    [][\A i \in 1..Len(reading) :
          (loads(i) /\ ~isWellFormed(reading[i])) =>
              /\ history' = history
              /\ \A k \in 1..Len(history'.present) : isElement(history'.present[k])]_vars

---------------------------------------------------------------------------
(* The properties panel: C10.  The rectangle is selected and the number    *)
(* inputs of the panel are typed into.                                     *)

MaxPanelEvents == 3

PanelProperties == {"x", "width", "rotation", "strokeWidth"}

\* nothing (the field was cleared), 7 and -3
PanelTexts == {<< >>, << "7" >>, << "-", "3" >>}

InitPanel == StartIn(Clicked)

NextPanel ==
    \/ \E property \in PanelProperties, typed \in PanelTexts :
          Counted(MaxPanelEvents) /\ PanelInput(property, typed)
    \/ Counted(MaxPanelEvents) /\ Escape
    \/ Counted(MaxPanelEvents) /\ SelectAll
    \/ Counted(MaxPanelEvents) /\ Undo
    \/ Counted(MaxPanelEvents) /\ Redo

SpecPanel == InitPanel /\ [][NextPanel]_vars

\* the numeric fields an element of the type has
numericFields(type) ==
    {"x", "y", "rotation", "strokeWidth"}
        \cup (IF type = "rectangle" THEN {"width", "height"} ELSE {})
        \cup (IF type = "circle" THEN {"radius"} ELSE {})

\* C10: a numeric property edit that resolves to no number stores 0, so that
\* every numeric field of every element of present holds a number.
C10_NumericFieldsHoldNumbers ==
    \A i \in 1..Len(history.present) :
        \A f \in numericFields(history.present[i].type) :
            IsNumber(history.present[i][f])

---------------------------------------------------------------------------
(* The guards of the keyboard shortcuts: C11.  The exploration starts      *)
(* after construction (nothing to undo, to copy or to paste), with the     *)
(* rectangle drawn, or with it selected.                                   *)

MaxGuardEvents == 3

InitGuard == \E s \in {Constructed, Drawn, Clicked} : StartIn(s)

NextGuard ==
    \/ Counted(MaxGuardEvents) /\ Undo
    \/ Counted(MaxGuardEvents) /\ Redo
    \/ Counted(MaxGuardEvents) /\ Copy(now)
    \/ Counted(MaxGuardEvents) /\ Cut(now)
    \/ Counted(MaxGuardEvents) /\ Paste(now)
    \/ Counted(MaxGuardEvents) /\ Escape
    \/ Counted(MaxGuardEvents) /\ SelectAll

SpecGuard == InitGuard /\ [][NextGuard]_vars

\* the editor's state, without the clipboard
sceneState == << history, selectedElement, tool, action, startPoint, activeHandle,
                 selectionBox, multiSelectMode >>

\* C11: an undo with empty past and a redo with empty future leave past,
\* present and future as they were; a copy and a cut with nothing selected
\* leave the clipboard, the scene and the history as they were; a paste with
\* an empty clipboard leaves the scene and the history as they were.
C11_NoOpGuards ==
    [][/\ (lastEvent' \in {"undo", "undo-noop"} /\ history.past = << >>)
            => history' = history
       /\ (lastEvent' \in {"redo", "redo-noop"} /\ history.future = << >>)
            => history' = history
       /\ (lastEvent' \in {"copy", "copy-noop", "cut", "cut-noop"} /\ ~anySelected)
            => (clipboard' = clipboard /\ sceneState' = sceneState)
       /\ (lastEvent' \in {"paste", "paste-noop"} /\ clipboard = << >>)
            => (clipboard' = clipboard /\ sceneState' = sceneState)]_vars

\* C11, its case: a cut has just been handled with nothing selected, in a
\* scene with an element and a history with snapshots
C11_Witness ==
    /\ lastEvent = "cut-noop"
    /\ history.present # << >>
    /\ history.past # << >>
    /\ ~anySelected

---------------------------------------------------------------------------
(* Box selection: C12.  A selection box follows the pointer only while a   *)
(* start point is set, and the pointer-down that opens the box sets none:  *)
(* the exploration starts where a pointer-down on an element (which sets   *)
(* the start point) was followed, with no pointer-up between them, by a    *)
(* pointer-down on empty space with the selection tool.                    *)

\* draw with tool tl from (x1, y1) to (x2, y2) at time t
drawShape(s, tl, x1, y1, x2, y2, t) ==
    handleMouseUp(
        handleMouseMove(
            handleMouseDown(setTool(s, tl), x1, y1, FALSE, FALSE, t), x2, y2, FALSE))

\* the rectangle (10, 10) 50 x 30, and a rectangle drawn from (90, 80) up and
\* left to (70, 60): its width and height are -20
TwoRectangles ==
    drawShape(drawShape(Constructed, "rectangle", 10, 10, 60, 40, 1),
              "rectangle", 90, 80, 70, 60, 2)

\* the circle about (40, 40) of radius 20 and the line (10, 80)-(60, 80)
CircleAndLine ==
    drawShape(drawShape(Constructed, "circle", 40, 40, 40, 60, 1),
              "line", 10, 80, 60, 80, 2)

\* a selection box opened at (ax, ay) after a pointer-down on the element at (hx, hy)
boxOpened(s, hx, hy, ax, ay) ==
    handleMouseDown(
        handleMouseDown(setTool(s, "selection"), hx, hy, FALSE, FALSE, 3),
        ax, ay, FALSE, FALSE, 3)

MaxBoxEvents == 4

BoxAnchors == {Point(0, 0), Point(100, 100)}

BoxPoints == {Point(0, 0), Point(30, 30), Point(80, 70), Point(100, 100)}

InitBox ==
    \E a \in BoxAnchors :
        \/ StartIn(boxOpened(TwoRectangles, 30, 20, a.x, a.y))
        \/ StartIn(boxOpened(CircleAndLine, 40, 40, a.x, a.y))

NextBox ==
    \/ \E p \in BoxPoints : Counted(MaxBoxEvents) /\ MouseMove(p.x, p.y, FALSE)
    \/ Counted(MaxBoxEvents) /\ MouseUp

SpecBox == InitBox /\ [][NextBox]_vars

\* the sides of the bounding box of an element
boundsOf(el) ==
    IF el.type = "rectangle" THEN
        [left |-> Min(el.x, el.x + el.width), right |-> Max(el.x, el.x + el.width),
         top |-> Min(el.y, el.y + el.height), bottom |-> Max(el.y, el.y + el.height)]
    ELSE IF el.type = "circle" THEN
        [left |-> el.x - el.radius, right |-> el.x + el.radius,
         top |-> el.y - el.radius, bottom |-> el.y + el.radius]
    ELSE IF el.type = "text" THEN
        [left |-> el.x, right |-> el.x + Len(TextOf(el)) * 8,
         top |-> el.y - 16, bottom |-> el.y]
    ELSE
        [left |-> Min(el.points[1].x, el.points[2].x),
         right |-> Max(el.points[1].x, el.points[2].x),
         top |-> Min(el.points[1].y, el.points[2].y),
         bottom |-> Max(el.points[1].y, el.points[2].y)]

\* the bounding box of el lies within the region of the box, whichever of
\* its corners is the anchor
boundsInside(el, box) ==
    LET b == boundsOf(el)
    IN  /\ b.left >= Min(box.startX, box.startX + box.width)
        /\ b.right <= Max(box.startX, box.startX + box.width)
        /\ b.top >= Min(box.startY, box.startY + box.height)
        /\ b.bottom <= Max(box.startY, box.startY + box.height)

\* C12: elementInBox is full containment in the box's normalized bounds: a
\* rectangle, circle or text is inside exactly when the four sides of its
\* bounding box lie within the box, a line or arrow exactly when both of its
\* endpoints do.
C12_FullContainment ==
    (action = "selecting" /\ selectionBox # << >>) =>
        \A i \in 1..Len(history.present) :
            isElementInSelectionBox(history.present[i], selectionBox[1])
                <=> boundsInside(history.present[i], selectionBox[1])

\* what holds of the code: the test is full containment for the elements
\* whose width and height are not negative
ContainmentOfPositiveExtents ==
    (action = "selecting" /\ selectionBox # << >>) =>
        \A i \in 1..Len(history.present) :
            LET el == history.present[i]
            IN  (el.type = "rectangle" => (el.width >= 0 /\ el.height >= 0)) =>
                    (isElementInSelectionBox(el, selectionBox[1])
                         <=> boundsInside(el, selectionBox[1]))

---------------------------------------------------------------------------
(* The hit test of a line: C13.  One line is on the canvas, the selection  *)
(* tool is active, and the pointer goes down at points at distances 5, 9,  *)
(* 10, 11 and 15 from the line, beside the segment and beyond its ends.    *)

HitLines ==
    { drawShape(Constructed, "line", 0, 0, 100, 0, 1),
      drawShape(Constructed, "arrow", 0, 0, 100, 0, 1),
      drawShape(Constructed, "line", 10, 10, 50, 40, 1) }

HitPoints ==
    { Point(50, 9), Point(50, 10), Point(50, 11), Point(150, 5), Point(150, 20),
      Point(27, 29), Point(24, 33), Point(90, 70), Point(-20, -9) }

MaxHitEvents == 3

InitHit == \E s \in HitLines : StartIn(setTool(s, "selection"))

NextHit ==
    \/ \E p \in HitPoints : Counted(MaxHitEvents) /\ MouseDown(p.x, p.y, FALSE, FALSE, now)
    \/ Counted(MaxHitEvents) /\ MouseUp

SpecHit == InitHit /\ [][NextHit]_vars

\* the square of the distance from p to the line through a and b, times the
\* square of the distance from a to b: |p - a|^2 |b - a|^2 - ((p - a).(b - a))^2
perpendicular2(p, a, b) ==
    LET dot == (p.x - a.x) * (b.x - a.x) + (p.y - a.y) * (b.y - a.y)
        pa2 == (p.x - a.x) * (p.x - a.x) + (p.y - a.y) * (p.y - a.y)
        ba2 == (b.x - a.x) * (b.x - a.x) + (b.y - a.y) * (b.y - a.y)
    IN  pa2 * ba2 - dot * dot

\* the distance from p to the line through the two points of el is less than 10
nearLine(p, el) ==
    LET a == el.points[1]
        b == el.points[2]
        ba2 == (b.x - a.x) * (b.x - a.x) + (b.y - a.y) * (b.y - a.y)
    IN  perpendicular2(p, a, b) < 100 * ba2

\* the point of the pointer-down this step handled: the start point when it
\* hit an element, the anchor of the selection box when it hit none
downPoint ==
    IF action' = "moving" THEN startPoint'[1]
    ELSE Point(selectionBox'[1].startX, selectionBox'[1].startY)

\* C13: a pointer-down on a canvas with one line or arrow hits it exactly
\* when the distance from the point to the infinite line through its two
\* endpoints is less than 10, also beyond the ends of the segment.
C13_LineHitThreshold ==
    [][(lastEvent' = "mouseDown" /\ selectedElement = << >>) =>
          /\ action' \in {"moving", "selecting"}
          /\ action' = "moving" <=> nearLine(downPoint, history.present[1])
          /\ isPointInElement(downPoint.x, downPoint.y, history.present[1])
                 <=> nearLine(downPoint, history.present[1])]_vars

\* C13, its case: the line (0, 0)-(100, 0) was hit at (150, 5), beyond its
\* end, and is not hit at (50, 11) nor at (50, 10)
C13_Witness ==
    /\ lastEvent = "mouseDown"
    /\ action = "moving"
    /\ startPoint = << Point(150, 5) >>
    /\ history.present[1].points = << Point(0, 0), Point(100, 0) >>
    /\ Truthy(history.present[1].selected)
    /\ isPointInElement(50, 9, history.present[1])
    /\ ~isPointInElement(50, 11, history.present[1])
    /\ ~isPointInElement(50, 10, history.present[1])

---------------------------------------------------------------------------
(* The rotation handle: C14.  A rectangle, a circle and a text, each with  *)
(* its centre at (30, 25), is the primary and its rotation handle has been *)
(* grabbed.  Without Shift the pointer moves to points whose direction     *)
(* from the centre is a multiple of 45 degrees; with Shift to any point.   *)

\* the element of s at (hx, hy) made the primary by a click, and then a
\* pointer-down on its rotation handle at (rx, ry)
rotationGrabbed(s, hx, hy, rx, ry) ==
    handleMouseDown(
        handleMouseUp(handleMouseDown(setTool(s, "selection"), hx, hy, FALSE, FALSE, 3)),
        rx, ry, FALSE, FALSE, 3)

RotationScenes ==
    { rotationGrabbed(Drawn, 30, 25, 30, -20),
      rotationGrabbed(drawShape(Constructed, "circle", 30, 25, 30, 45, 1), 30, 25, 30, -25),
      rotationGrabbed(handleMouseUp(handleMouseDown(setTool(Constructed, "text"),
                                                    -50, 33, FALSE, FALSE, 1)),
                      30, 25, 30, -13) }

\* pointers straight above, right of, below and left of the centre, on the
\* diagonals, and on the centre
ExactPoints ==
    { Point(30, 5), Point(60, 25), Point(30, 50), Point(0, 25), Point(50, 5),
      Point(50, 45), Point(10, 45), Point(10, 5), Point(30, 25) }

\* pointers in other directions
SnapPoints ==
    ExactPoints \cup
    { Point(40, -15), Point(33, -15), Point(70, 15), Point(20, -15), Point(-10, 55),
      Point(37, 49), Point(31, 24) }

MaxRotateEvents == 3

InitRotate == \E s \in RotationScenes : StartIn(s)

NextRotate ==
    \/ \E p \in ExactPoints : Counted(MaxRotateEvents) /\ MouseMove(p.x, p.y, FALSE)
    \/ \E p \in SnapPoints : Counted(MaxRotateEvents) /\ MouseMove(p.x, p.y, TRUE)
    \/ Counted(MaxRotateEvents) /\ MouseUp

SpecRotate == InitRotate /\ [][NextRotate]_vars

\* the centre of the bounding box of el, doubled
boundingCenter2(el) ==
    LET b == boundsOf(el)
    IN  Point(b.left + b.right, b.top + b.bottom)

\* the unit steps of the directions that are multiples of 45 degrees, by the
\* rotation that points there: 0 is up, 90 is right
Directions ==
    { << 0, Point(0, -1) >>, << 45, Point(1, -1) >>, << 90, Point(1, 0) >>,
      << 135, Point(1, 1) >>, << 180, Point(0, 1) >>, << 225, Point(-1, 1) >>,
      << 270, Point(-1, 0) >>, << -45, Point(-1, -1) >> }

\* rotation r points from the pivot (doubled) to the pointer p: atan2 of
\* (p - pivot) in degrees, plus 90, is r; atan2(0, 0) is 0
pointsAt(r, p, pivot2) ==
    LET dx == 2 * p.x - pivot2.x
        dy == 2 * p.y - pivot2.y
    IN  IF dx = 0 /\ dy = 0 THEN r = 90
        ELSE \E d \in Directions :
                /\ d[1] = r
                /\ dx * d[2].y - dy * d[2].x = 0
                /\ dx * d[2].x + dy * d[2].y > 0

\* the element of the scene that is the primary
primaryIn(elements, primary) ==
    elements[CHOOSE i \in 1..Len(elements) : elements[i].id = primary.id]

\* C14: while Resizing on the rotation handle, a pointer-move makes the
\* rotation of the primary atan2(pointer - pivot) in degrees + 90, the pivot
\* being the centre of its bounding box (up is 0, right is 90); with Shift
\* the rotation is a multiple of 15, and the same angle where that is one.
C14_RotationFollowsPointer ==
    [][(action = "resizing" /\ activeHandle = "rotation") =>
          /\ \A p \in ExactPoints :
                MouseMove(p.x, p.y, FALSE) =>
                   LET el == primaryIn(history'.present, selectedElement[1])
                   IN  /\ pointsAt(el.rotation, p,
                                   boundingCenter2(primaryIn(history.present,
                                                             selectedElement[1])))
                       /\ selectedElement' = << el >>
          /\ \A p \in SnapPoints :
                MouseMove(p.x, p.y, TRUE) =>
                   LET el == primaryIn(history'.present, selectedElement[1])
                       pivot2 == boundingCenter2(primaryIn(history.present,
                                                           selectedElement[1]))
                   IN  /\ el.rotation % 15 = 0
                       /\ p \in ExactPoints => pointsAt(el.rotation, p, pivot2)
                       /\ selectedElement' = << el >>]_vars

\* C14, its case: the rotation handle of the rectangle is held, the last
\* move went straight to the right of its centre and the rotation is 90
C14_Witness ==
    /\ lastEvent = "mouseMove"
    /\ action = "resizing" /\ activeHandle = "rotation"
    /\ selectedElement # << >>
    /\ selectedElement[1].type = "rectangle"
    /\ selectedElement[1].rotation = 90
    /\ history.present[1].rotation = 90
    /\ gestureMoves >= 2

---------------------------------------------------------------------------
(* The pointer-down: C15, C17 to C20.  Two rectangles overlap: A from      *)
(* (10, 10) to (60, 40), drawn first, and B from (30, 0) to (80, 30),      *)
(* drawn second and so above A.  None, one or both of them are selected.   *)
(* The pointer goes down inside A only, inside both and on empty space,    *)
(* with and without Shift and Alt, under every tool; each                  *)
(* pointer-down is handled in a later clock tick than the one before.      *)

Overlap ==
    setTool(drawShape(drawShape(Constructed, "rectangle", 10, 10, 60, 40, 1),
                      "rectangle", 30, 0, 80, 30, 2),
            "selection")

DownScenes ==
    { Constructed, Overlap,
      handleMouseUp(handleMouseDown(Overlap, 20, 35, FALSE, FALSE, 3)),
      handleMouseUp(handleMouseDown(Overlap, 70, 10, FALSE, FALSE, 3)),
      keySelectAll(Overlap) }

AllTools == {"selection", "rectangle", "circle", "line", "arrow", "freehand", "text"}

DownPoints == {Point(20, 35), Point(50, 20), Point(100, 60)}

MaxDownEvents == 3

InitDown == \E s \in DownScenes : StartIn(s)

NextDown ==
    \/ \E tl \in AllTools : Counted(MaxDownEvents) /\ SetTool(tl)
    \/ \E p \in DownPoints, isShiftPressed \in BOOLEAN, isAltPressed \in BOOLEAN :
          Counted(MaxDownEvents) /\ MouseDown(p.x, p.y, isShiftPressed, isAltPressed, now + 1)
    \/ Counted(MaxDownEvents) /\ MouseUp
    \/ Counted(MaxDownEvents) /\ SelectAll

SpecDown == InitDown /\ [][NextDown]_vars

\* the elements of the scene that contain the point, in scene order
elementsAt(elements, p) ==
    SelectSeq(elements, LAMBDA el : isPointInElement(p.x, p.y, el))

\* the point is on no handle of the primary
offHandles(p) ==
    selectedElement = << >> \/ getHandleAtPosition(p.x, p.y, selectedElement[1]) = "null"

\* the point is on no handle of the primary and in no element
onEmptySpace(p) == offHandles(p) /\ elementsAt(history.present, p) = << >>

\* the ids of the elements of a scene
idsOf(elements) == {elements[i].id : i \in 1..Len(elements)}

\* no element of `after` that was in `before` is selected
oldDeselected(before, after) ==
    \A i \in 1..Len(after) : after[i].id \in idsOf(before) => ~Truthy(after[i].selected)

\* C15: after a pointer-down on empty space without Shift no element that
\* existed before it is selected in present, whatever the tool.
C15_EmptyClickDeselects ==
    [][\A p \in DownPoints, isAltPressed \in BOOLEAN :
          (MouseDown(p.x, p.y, FALSE, isAltPressed, now + 1) /\ onEmptySpace(p)) =>
             oldDeselected(history.present, history'.present)]_vars

\* the same under the selection tool and the text tool, where it holds
DeselectionBySelectionAndText ==
    [][\A p \in DownPoints, isAltPressed \in BOOLEAN :
          (/\ MouseDown(p.x, p.y, FALSE, isAltPressed, now + 1)
           /\ onEmptySpace(p)
           /\ tool \in {"selection", "text"}) =>
             oldDeselected(history.present, history'.present)]_vars

---------------------------------------------------------------------------
(* The selection box from Idle: C16.  The exploration starts in Idle, on   *)
(* the empty canvas and on the two rectangles; a pointer-move that         *)
(* handleMouseMove returns from at once is a step of its own.              *)

\* handleMouseMove where `action === "none" || !startPoint`: nothing is set
MouseMoveIgnored ==
    /\ action = "none" \/ startPoint = << >>
    /\ Becomes(State, "mouseMove-ignored", FALSE)
    /\ UNCHANGED << gestureStart, gestureKind, gestureMoves, gestureShift >>

SelectScenes ==
    { setTool(Constructed, "selection"), Overlap,
      handleMouseUp(handleMouseDown(Overlap, 20, 35, FALSE, FALSE, 3)) }

MaxSelectEvents == 3

InitSelect == \E s \in SelectScenes : StartIn(s)

NextSelect ==
    \/ \E p \in DownPoints, isShiftPressed \in BOOLEAN :
          Counted(MaxSelectEvents) /\ MouseDown(p.x, p.y, isShiftPressed, FALSE, now + 1)
    \/ \E p \in BoxPoints : Counted(MaxSelectEvents) /\ MouseMove(p.x, p.y, FALSE)
    \/ Counted(MaxSelectEvents) /\ MouseMoveIgnored
    \/ Counted(MaxSelectEvents) /\ MouseUp

SpecSelect == InitSelect /\ [][NextSelect]_vars

\* the selection box is anchored where it was and spans to the pointer p
boxSpansTo(p) ==
    /\ selectionBox # << >> /\ selectionBox' # << >>
    /\ selectionBox'[1].startX = selectionBox[1].startX
    /\ selectionBox'[1].startY = selectionBox[1].startY
    /\ selectionBox'[1].width = p.x - selectionBox[1].startX
    /\ selectionBox'[1].height = p.y - selectionBox[1].startY

\* C16: while BoxSelecting in a gesture started by a pointer-down in Idle,
\* after each pointer-move the selection box has width = pointer.x - anchor.x
\* and height = pointer.y - anchor.y, and its anchor is unchanged.
C16_BoxTracksPointer ==
    [][\A p \in BoxPoints :
          (/\ action = "selecting" /\ gestureKind = "selecting"
           /\ MouseMove(p.x, p.y, FALSE) \/ MouseMoveIgnored) => boxSpansTo(p)]_vars

\* the box does track the pointer in the moves that handleMouseMove handles:
\* those of a box opened while a start point was left from an earlier
\* pointer-down that no pointer-up has followed
BoxTracksHandledMoves ==
    [][\A p \in BoxPoints :
          (action = "selecting" /\ MouseMove(p.x, p.y, FALSE)) => boxSpansTo(p)]_vars

---------------------------------------------------------------------------
(* The element under the pointer: C17, C18, C19, on the two overlapping    *)
(* rectangles.                                                             *)

\* the last of a non-empty sequence
Last(seq) == seq[Len(seq)]

\* exactly the elements of the given ids are selected
selectedIds(elements) ==
    {elements[i].id : i \in {j \in 1..Len(elements) : Truthy(elements[j].selected)}}

\* C17: when the pointer goes down (without Shift or Alt) inside several
\* elements, the element selected and moved is the topmost one, the latest
\* in scene order among those containing the point.
C17_TopmostIsPicked ==
    [][\A p \in DownPoints :
          (/\ MouseDown(p.x, p.y, FALSE, FALSE, now + 1)
           /\ offHandles(p)
           /\ Len(elementsAt(history.present, p)) >= 2) =>
             /\ action' = "moving"
             /\ selectedElement' # << >>
             /\ selectedElement'[1].id = Last(elementsAt(history.present, p)).id
             /\ selectedIds(history'.present) = {Last(elementsAt(history.present, p)).id}]_vars

\* what the source does: the element picked is the first in scene order
FirstIsPicked ==
    [][\A p \in DownPoints :
          (/\ MouseDown(p.x, p.y, FALSE, FALSE, now + 1)
           /\ offHandles(p)
           /\ elementsAt(history.present, p) # << >>) =>
             /\ action' = "moving"
             /\ selectedElement' # << >>
             /\ selectedElement'[1].id = elementsAt(history.present, p)[1].id
             /\ selectedIds(history'.present) = {elementsAt(history.present, p)[1].id}]_vars

\* C18: a pointer-down with Alt on an element E appends a clone of E that
\* equals E in every field except a fresh id and selected = true, makes the
\* clone the primary and enters Moving; without Shift the clone is the only
\* selected element, with Shift every element that was there keeps its flag.
C18_AltCloneIsOnlySelected ==
    [][\A p \in DownPoints, isShiftPressed \in BOOLEAN :
          (/\ MouseDown(p.x, p.y, isShiftPressed, TRUE, now + 1)
           /\ offHandles(p)
           /\ elementsAt(history.present, p) # << >>) =>
             LET E == elementsAt(history.present, p)[1]
                 before == history.present
                 after == history'.present
                 clone == Last(after)
             IN  /\ Len(after) = Len(before) + 1
                 /\ clone = [E EXCEPT !.id = clone.id, !.selected = "true"]
                 /\ clone.id \notin idsOf(before)
                 /\ selectedElement' = << clone >>
                 /\ action' = "moving"
                 /\ ~isShiftPressed => selectedIds(after) = {clone.id}
                 /\ isShiftPressed => SubSeq(after, 1, Len(before)) = before]_vars

\* what the source does without Shift: the clone and E are the selected elements
AltCloneAndOriginalSelected ==
    [][\A p \in DownPoints, isShiftPressed \in BOOLEAN :
          (/\ MouseDown(p.x, p.y, isShiftPressed, TRUE, now + 1)
           /\ offHandles(p)
           /\ elementsAt(history.present, p) # << >>) =>
             LET E == elementsAt(history.present, p)[1]
                 before == history.present
                 after == history'.present
                 clone == Last(after)
             IN  /\ Len(after) = Len(before) + 1
                 /\ clone = [E EXCEPT !.id = clone.id, !.selected = "true"]
                 /\ clone.id \notin idsOf(before)
                 /\ selectedElement' = << clone >>
                 /\ action' = "moving"
                 /\ ~isShiftPressed => selectedIds(after) = {clone.id, E.id}
                 /\ isShiftPressed => SubSeq(after, 1, Len(before)) = before]_vars

\* the elements of `after` are those of `before` but for the selected flag
onlyFlagsChanged(before, after) ==
    /\ Len(after) = Len(before)
    /\ \A i \in 1..Len(before) : [after[i] EXCEPT !.selected = before[i].selected] = before[i]

\* C19: a pointer-down without Alt on an element E: without Shift, E becomes
\* the only selected element and the primary, selected before or not; with
\* Shift and E unselected, E becomes selected and the primary and the others
\* keep their flag; with Shift and E selected, E becomes unselected and the
\* others keep their flag.  The state becomes Moving in every case.
C19_ClickRuleTable ==
    [][\A p \in DownPoints, isShiftPressed \in BOOLEAN :
          (/\ MouseDown(p.x, p.y, isShiftPressed, FALSE, now + 1)
           /\ offHandles(p)
           /\ elementsAt(history.present, p) # << >>) =>
             LET E == elementsAt(history.present, p)[1]
                 before == history.present
                 after == history'.present
             IN  /\ action' = "moving"
                 /\ onlyFlagsChanged(before, after)
                 /\ ~isShiftPressed =>
                       /\ selectedIds(after) = {E.id}
                       /\ selectedElement' # << >> /\ selectedElement'[1].id = E.id
                 /\ (isShiftPressed /\ ~Truthy(E.selected)) =>
                       /\ selectedIds(after) = selectedIds(before) \cup {E.id}
                       /\ selectedElement' # << >> /\ selectedElement'[1].id = E.id
                 /\ (isShiftPressed /\ Truthy(E.selected)) =>
                       selectedIds(after) = selectedIds(before) \ {E.id}]_vars

\* C19, its case: both rectangles were selected and a Shift-click inside A
\* only has unselected A and left B selected; the state is Moving
C19_Witness ==
    /\ lastEvent = "mouseDown"
    /\ action = "moving"
    /\ multiSelectMode
    /\ startPoint = << Point(20, 35) >>
    /\ Len(history.present) = 2
    /\ ~Truthy(history.present[1].selected)
    /\ Truthy(history.present[2].selected)
    /\ history.past # << >> /\ Truthy(Last(history.past)[1].selected)

---------------------------------------------------------------------------
(* The element a drawing tool starts: C20.                                 *)

\* el is what the tool seeds at p
seededAt(el, tl, p) ==
    CASE tl = "rectangle" -> el.x = p.x /\ el.y = p.y /\ el.width = 0 /\ el.height = 0
      [] tl = "circle" -> el.x = p.x /\ el.y = p.y /\ el.radius = 0
      [] tl \in {"line", "arrow"} -> el.points = << p, p >>
      [] tl = "freehand" -> el.points = << p >>
      [] tl = "text" -> /\ el.x = p.x /\ el.y = p.y
                        /\ Truthy(el.selected) /\ el.text = PlaceholderText

\* the scene `after` is `before` (but for the selected flags) and one element
\* more, of the given kind, seeded at p by the tool
oneAppended(before, after, kind, tl, p) ==
    /\ Len(after) = Len(before) + 1
    /\ onlyFlagsChanged(before, SubSeq(after, 1, Len(before)))
    /\ Last(after).type = kind
    /\ seededAt(Last(after), tl, p)

\* C20: a pointer-down on empty space with a drawing tool and without Shift
\* enters Drawing and appends exactly one element whose kind is the active
\* tool, seeded at the point; with the selection tool or with Shift it
\* enters BoxSelecting and appends nothing.
C20_DrawingSeedsToolKind ==
    [][\A p \in DownPoints, isShiftPressed \in BOOLEAN, isAltPressed \in BOOLEAN :
          (/\ MouseDown(p.x, p.y, isShiftPressed, isAltPressed, now + 1)
           /\ onEmptySpace(p)) =>
             IF tool # "selection" /\ ~isShiftPressed
             THEN /\ action' = "drawing"
                  /\ oneAppended(history.present, history'.present, tool, tool, p)
             ELSE /\ action' = "selecting"
                  /\ onlyFlagsChanged(history.present, history'.present)]_vars

\* what the source does: the freehand tool appends an element of kind line
FreehandSeedsLine ==
    [][\A p \in DownPoints, isShiftPressed \in BOOLEAN, isAltPressed \in BOOLEAN :
          (/\ MouseDown(p.x, p.y, isShiftPressed, isAltPressed, now + 1)
           /\ onEmptySpace(p)) =>
             IF tool # "selection" /\ ~isShiftPressed
             THEN /\ action' = "drawing"
                  /\ oneAppended(history.present, history'.present,
                                 IF tool = "freehand" THEN "line" ELSE tool, tool, p)
             ELSE /\ action' = "selecting"
                  /\ onlyFlagsChanged(history.present, history'.present)]_vars

---------------------------------------------------------------------------
(* The pointer-up: C21, C22, C23.  A selection box has been opened over    *)
(* two rectangles (one of negative extents) or over a circle and a line,   *)
(* with or without Shift, after a pointer-down on an element that no       *)
(* pointer-up followed, so that the pointer-moves are handled.  From there *)
(* the pointer moves, is released, leaves the canvas or goes down again.   *)

\* boxOpened, the second pointer-down with or without Shift
boxOpenedWith(s, hx, hy, ax, ay, isShiftPressed) ==
    handleMouseDown(
        handleMouseDown(setTool(s, "selection"), hx, hy, FALSE, FALSE, 3),
        ax, ay, isShiftPressed, FALSE, 3)

\* onMouseLeave={handleMouseUp}
MouseLeave ==
    /\ Becomes(handleMouseUp(State), "mouseLeave", mouseUpCommits(State))
    /\ UNCHANGED << gestureStart, gestureKind, gestureMoves, gestureShift >>

ReleaseDownPoints == {Point(10, 10), Point(30, 20), Point(100, 100)}

\* the points of BoxPoints and two that leave a box thinner than 5 units
ReleasePoints == BoxPoints \cup {Point(80, 2), Point(3, 97)}

MaxReleaseEvents == 3

InitRelease ==
    \E a \in BoxAnchors, isShiftPressed \in BOOLEAN :
        \/ StartIn(boxOpenedWith(TwoRectangles, 30, 20, a.x, a.y, isShiftPressed))
        \/ StartIn(boxOpenedWith(CircleAndLine, 40, 40, a.x, a.y, isShiftPressed))

NextRelease ==
    \/ \E p \in ReleasePoints : Counted(MaxReleaseEvents) /\ MouseMove(p.x, p.y, FALSE)
    \/ Counted(MaxReleaseEvents) /\ MouseMoveIgnored
    \/ Counted(MaxReleaseEvents) /\ MouseUp
    \/ Counted(MaxReleaseEvents) /\ MouseLeave
    \/ \E p \in ReleaseDownPoints, isShiftPressed \in BOOLEAN :
          Counted(MaxReleaseEvents) /\ MouseDown(p.x, p.y, isShiftPressed, FALSE, now + 1)
    \/ \E tl \in Tools : Counted(MaxReleaseEvents) /\ SetTool(tl)

SpecRelease == InitRelease /\ [][NextRelease]_vars

\* a selection box is being released
boxReleased ==
    /\ action = "selecting" /\ selectionBox # << >>
    /\ MouseUp \/ MouseLeave

\* the first selected element of a scene, or none
firstSelected(elements) ==
    IF \E i \in 1..Len(elements) : Truthy(elements[i].selected)
    THEN << elements[CHOOSE i \in 1..Len(elements) :
                /\ Truthy(elements[i].selected)
                /\ \A j \in 1..(i - 1) : ~Truthy(elements[j].selected)] >>
    ELSE << >>

\* the flags a released box leaves, inBox(element) telling what is inside it
boxApplied(inBox(_)) ==
    LET before == history.present
        after == history'.present
    IN  /\ onlyFlagsChanged(before, after)
        /\ \A i \in 1..Len(before) :
              Truthy(after[i].selected) <=>
                 IF multiSelectMode
                 THEN (IF inBox(before[i]) THEN ~Truthy(before[i].selected)
                       ELSE Truthy(before[i].selected))
                 ELSE inBox(before[i])
        /\ history'.past = Append(history.past, before)
        /\ selectedElement' = firstSelected(after)

\* C21: on pointer-up in BoxSelecting with a box of the minimum size, without
\* Shift every element's selected flag becomes elementInBox(element, box),
\* with Shift the elements inside are toggled and those outside keep their
\* flag; one history entry is pushed and the primary becomes the first
\* selected element in scene order, or none.
C21_BoxReleaseSelects ==
    [][(/\ boxReleased
        /\ Abs(selectionBox[1].width) >= 5 /\ Abs(selectionBox[1].height) >= 5) =>
          boxApplied(LAMBDA el : boundsInside(el, selectionBox[1]))]_vars

\* the same with the test the source applies in place of elementInBox
BoxReleaseAppliesSourceTest ==
    [][(/\ boxReleased
        /\ Abs(selectionBox[1].width) >= 5 /\ Abs(selectionBox[1].height) >= 5) =>
          boxApplied(LAMBDA el : isElementInSelectionBox(el, selectionBox[1]))]_vars

\* and for the elements of non-negative extents: there the two tests agree
BoxReleaseSelectsPositiveExtents ==
    [][(/\ boxReleased
        /\ Abs(selectionBox[1].width) >= 5 /\ Abs(selectionBox[1].height) >= 5
        /\ \A i \in 1..Len(history.present) :
              history.present[i].type = "rectangle" =>
                 history.present[i].width >= 0 /\ history.present[i].height >= 0) =>
          boxApplied(LAMBDA el : boundsInside(el, selectionBox[1]))]_vars

\* C22: a released box whose |width| or |height| is below 5 changes no
\* selected flag and pushes no history entry; a selection change is committed
\* only for a box of at least 5 units in both dimensions.
C22_SmallBoxChangesNothing ==
    [][(/\ boxReleased
        /\ Abs(selectionBox[1].width) < 5 \/ Abs(selectionBox[1].height) < 5) =>
          /\ history' = history
          /\ selectedElement' = selectedElement]_vars

\* what the source does: a box is passed over when both its |width| and its
\* |height| are below 5
ClickSizedBoxChangesNothing ==
    [][(/\ boxReleased
        /\ Abs(selectionBox[1].width) < 5 /\ Abs(selectionBox[1].height) < 5) =>
          /\ history' = history
          /\ selectedElement' = selectedElement]_vars

\* and a box thinner than 5 units in one dimension only is committed
ThinBoxIsCommitted ==
    [][(/\ boxReleased
        /\ Abs(selectionBox[1].width) < 5 /\ Abs(selectionBox[1].height) >= 5) =>
          history'.past = Append(history.past, history.present)]_vars

\* C23: every pointer-up or pointer-leave ends in Idle with no active handle,
\* no start point and no selection box; a pointer-leave during Drawing,
\* Moving or Resizing commits the live edit exactly as a pointer-up does.
C23_ReleaseEndsIdle ==
    [][(MouseUp \/ MouseLeave) =>
          /\ action' = "none"
          /\ activeHandle' = "null"
          /\ startPoint' = << >>
          /\ selectionBox' = << >>
          /\ (MouseLeave /\ action \in {"drawing", "moving", "resizing"}) =>
                /\ history'.present = history.present
                /\ history'.past = Append(history.past, history.present)
                /\ history'.future = << >>]_vars

\* the same but for the selection box, which only the release of a box clears
ReleaseEndsIdleButForBox ==
    [][(MouseUp \/ MouseLeave) =>
          /\ action' = "none"
          /\ activeHandle' = "null"
          /\ startPoint' = << >>
          /\ action = "selecting" => selectionBox' = << >>
          /\ action # "selecting" => selectionBox' = selectionBox
          /\ (MouseLeave /\ action \in {"drawing", "moving", "resizing"}) =>
                /\ history'.present = history.present
                /\ history'.past = Append(history.past, history.present)
                /\ history'.future = << >>]_vars

---------------------------------------------------------------------------
(* Moving: C24, C25.  A rectangle, a line, a circle and a text are on the  *)
(* canvas, none or all of them selected.  The pointer goes down inside the *)
(* rectangle at (30, 20), with or without Shift, and moves, with or        *)
(* without Shift.                                                          *)

Mixed ==
    handleMouseUp(
        handleMouseDown(
            setTool(drawShape(drawShape(drawShape(Constructed, "rectangle", 10, 10, 60, 40, 1),
                                        "line", 10, 80, 60, 80, 2),
                              "circle", 100, 40, 100, 60, 3),
                    "text"),
            70, 120, FALSE, FALSE, 4))

MoveDown == Point(30, 20)

\* nothing selected; all selected; all but the rectangle selected
MoveScenes ==
    { setTool(keyEscape(Mixed), "selection"),
      setTool(keySelectAll(Mixed), "selection"),
      handleMouseUp(handleMouseDown(setTool(keySelectAll(Mixed), "selection"),
                                    MoveDown.x, MoveDown.y, TRUE, FALSE, 5)) }

MoveTargets == {Point(50, 20), Point(30, 50), Point(45, 60), Point(10, 5)}

MaxMoveEvents == 4

InitMove == \E s \in MoveScenes : StartIn(s)

NextMove ==
    \/ \E isShiftPressed \in BOOLEAN :
          Counted(MaxMoveEvents)
          /\ MouseDown(MoveDown.x, MoveDown.y, isShiftPressed, FALSE, now + 1)
    \/ \E p \in MoveTargets, shiftKey \in BOOLEAN :
          Counted(MaxMoveEvents) /\ MouseMove(p.x, p.y, shiftKey)
    \/ Counted(MaxMoveEvents) /\ MouseUp

SpecMove == InitMove /\ [][NextMove]_vars

\* el displaced by (dx, dy): its position, or every one of its points
displaced(el, dx, dy) ==
    IF el.type \in {"line", "arrow"}
    THEN [el EXCEPT !.points = [k \in 1..Len(el.points) |->
                                   Point(el.points[k].x + dx, el.points[k].y + dy)]]
    ELSE [el EXCEPT !.x = el.x + dx, !.y = el.y + dy]

\* the selected elements of `after` are those of `before` displaced by
\* (dx, dy), the others are unchanged
selectedDisplaced(before, after, dx, dy) ==
    /\ Len(after) = Len(before)
    /\ \A i \in 1..Len(before) :
          after[i] = IF Truthy(before[i].selected) THEN displaced(before[i], dx, dy)
                     ELSE before[i]

\* the scene with the flags of another
withFlagsOf(elements, flags) ==
    [i \in 1..Len(elements) |-> [elements[i] EXCEPT !.selected = flags[i].selected]]

\* C24: each pointer-move in Moving adds the delta from the previous pointer
\* position of the gesture to the position, or to every point, of every
\* selected element and leaves the unselected elements unchanged; with Shift
\* only the component of larger absolute value is applied; without Shift the
\* total displacement is the last pointer position minus the down-point.
C24_MovingAddsDelta ==
    [][\A p \in MoveTargets, shiftKey \in BOOLEAN :
          (action = "moving" /\ MouseMove(p.x, p.y, shiftKey)) =>
             LET dx == p.x - startPoint[1].x
                 dy == p.y - startPoint[1].y
             IN  /\ ~shiftKey =>
                       selectedDisplaced(history.present, history'.present, dx, dy)
                 /\ (shiftKey /\ Abs(dx) > Abs(dy)) =>
                       selectedDisplaced(history.present, history'.present, dx, 0)
                 /\ (shiftKey /\ Abs(dy) > Abs(dx)) =>
                       selectedDisplaced(history.present, history'.present, 0, dy)
                 /\ ~gestureShift' =>
                       selectedDisplaced(
                          withFlagsOf(gestureStart.present, history.present),
                          history'.present, p.x - MoveDown.x, p.y - MoveDown.y)
                 /\ startPoint' = << p >>]_vars

\* C24, its case: the line, the circle and the text were selected, a
\* Shift-click added the rectangle, and all four have been moved twice
\* without Shift, to (50, 20) and on to (45, 60): the rectangle is at
\* (25, 50), the line starts at (25, 120), the circle is about (115, 80)
C24_Witness ==
    /\ action = "moving" /\ ~gestureShift
    /\ gestureMoves = 2
    /\ startPoint = << Point(45, 60) >>
    /\ Len(history.present) = 4
    /\ \A i \in 1..4 : Truthy(history.present[i].selected)
    /\ history.present[1].x = 25 /\ history.present[1].y = 50
    /\ history.present[2].points[1] = Point(25, 120)
    /\ history.present[3].x = 115 /\ history.present[3].y = 80

---------------------------------------------------------------------------
(* The live edits of a gesture: C25, under the specification Spec.         *)

\* C25: every pointer-move handled in Drawing, Moving or Resizing replaces
\* only present: past and future are the same sequences after it as before,
\* so no snapshot stored in them changes.
C25_MovesReplaceOnlyPresent ==
    [][\A p \in MovePoints :
          (/\ MouseMove(p.x, p.y, FALSE)
           /\ action \in {"drawing", "moving", "resizing"}) =>
             /\ history'.past = history.past
             /\ history'.future = history.future
             /\ ~committed']_vars

\* C25, its case: a pointer-move has resized the rectangle while a snapshot
\* waits in future and others in past; present differs from all of them
C25_Witness ==
    /\ lastEvent = "mouseMove"
    /\ action = "resizing"
    /\ history.future # << >>
    /\ history.past # << >>
    /\ history.present # history.future[1]
    /\ history.present # history.past[Len(history.past)]
    /\ gestureStart.future = history.future

---------------------------------------------------------------------------
(* Undo and redo as inverses: C26, under the specification SpecCap, where  *)
(* past and future reach the cap.                                          *)

\* C26: when past is non-empty, undo followed at once by redo leaves past,
\* present and future exactly as they were, and when future is non-empty,
\* redo followed at once by undo does the same.
C26_UndoRedoRoundTrip ==
    /\ history.past # << >> => handleRedo(handleUndo(history)) = history
    /\ history.future # << >> => handleUndo(handleRedo(history)) = history

\* C26, its case: more commits than the cap were made and three undos have
\* followed; past and future are both non-empty and a redo fills past to
\* the cap
C26_Witness ==
    /\ lastEvent = "undo"
    /\ Len(history.future) = 3
    /\ Len(history.past) = MAX_HISTORY_LENGTH - 3
    /\ handleRedo(handleUndo(history)) = history
    /\ handleUndo(handleRedo(history)) = history
    /\ handleUndo(history) # history

---------------------------------------------------------------------------
(* Paste, duplicate and cut among several elements: C27, C28.  The          *)
(* rectangle, the line, the circle and the text are on the canvas with     *)
(* none, all, or all but the rectangle selected; a Shift-click on the      *)
(* rectangle changes the selection.                                        *)

MaxPasteEvents == 4

InitPaste == \E s \in MoveScenes : StartIn(s)

NextPaste ==
    \/ Counted(MaxPasteEvents) /\ Copy(now + 1)
    \/ Counted(MaxPasteEvents) /\ Cut(now + 1)
    \/ Counted(MaxPasteEvents) /\ Paste(now + 1)
    \/ Counted(MaxPasteEvents) /\ Duplicate(now + 1)
    \/ Counted(MaxPasteEvents) /\ Undo
    \/ Counted(MaxPasteEvents)
       /\ MouseDown(MoveDown.x, MoveDown.y, TRUE, FALSE, now + 1)
    \/ Counted(MaxPasteEvents) /\ MouseUp

SpecPaste == InitPaste /\ [][NextPaste]_vars

\* el is the copy paste and duplicate make of src: src moved by (20, 20),
\* selected, under another id
isOffsetCopy(el, src) ==
    [el EXCEPT !.id = src.id] =
        [displaced(src, 20, 20) EXCEPT
            !.selected = "true",
            !.x = IF src.type \in {"line", "arrow"} THEN src.x + 20 ELSE @,
            !.y = IF src.type \in {"line", "arrow"} THEN src.y + 20 ELSE @]

\* C27: after a paste with a non-empty clipboard, or a duplicate with a
\* non-empty selection, the new elements follow all the elements that were
\* there, in source order; exactly the new ones are selected; one history
\* entry is pushed; the primary is the first of the new elements.
C27_CopiesAppendedAndSelected ==
    [][lastEvent' \in {"paste", "duplicate"} =>
          LET before == history.present
              after == history'.present
              source == IF lastEvent' = "paste" THEN clipboard
                        ELSE SelectSeq(before, isSelected)
          IN  /\ Len(source) > 0
              /\ Len(after) = Len(before) + Len(source)
              /\ onlyFlagsChanged(before, SubSeq(after, 1, Len(before)))
              /\ \A i \in 1..Len(before) : ~Truthy(after[i].selected)
              /\ \A k \in 1..Len(source) :
                    /\ isOffsetCopy(appended[k], source[k])
                    /\ appended[k].id \notin idsOf(before)
              /\ history'.past = Append(history.past, before)
              /\ selectedElement' = << appended[1] >>]_vars

\* C27, its case: the line, the circle and the text were selected and have
\* been duplicated: the scene is the four elements and then the three copies
C27_Witness ==
    /\ lastEvent = "duplicate"
    /\ Len(history.present) = 7
    /\ << history.present[5].type, history.present[6].type, history.present[7].type >>
          = << "line", "circle", "text" >>
    /\ \A i \in 1..4 : ~Truthy(history.present[i].selected)
    /\ \A i \in 5..7 : Truthy(history.present[i].selected)
    /\ selectedElement = << history.present[5] >>

\* C28: a cut with a non-empty selection stores in the clipboard one copy per
\* selected element, equal to it in every field but a new id, removes
\* exactly the selected elements from present, keeping the others unchanged
\* and in order, clears the primary and pushes one history entry, so that
\* one undo brings the originals back.
C28_CutMovesSelectionToClipboard ==
    [][lastEvent' = "cut" =>
          LET before == history.present
              selectedElements == SelectSeq(before, isSelected)
          IN  /\ Len(selectedElements) > 0
              /\ Len(clipboard') = Len(selectedElements)
              /\ \A i \in 1..Len(selectedElements) :
                    /\ [clipboard'[i] EXCEPT !.id = selectedElements[i].id]
                          = selectedElements[i]
                    /\ clipboard'[i].id \notin idsOf(before)
              /\ history'.present = SelectSeq(before, LAMBDA el : ~isSelected(el))
              /\ selectedElement' = << >>
              /\ history'.past = Append(history.past, before)
              /\ handleUndo(history').present = before]_vars

\* C28, its case: the line, the circle and the text have been cut; the
\* rectangle is what is left and the clipboard holds the three copies
C28_Witness ==
    /\ lastEvent = "cut"
    /\ Len(clipboard) = 3
    /\ << clipboard[1].type, clipboard[2].type, clipboard[3].type >>
          = << "line", "circle", "text" >>
    /\ Len(history.present) = 1
    /\ history.present[1].type = "rectangle"
    /\ Len(history.past[Len(history.past)]) = 4

---------------------------------------------------------------------------
(* The inline text editor: C29.  handleDoubleClick opens a <textarea> over  *)
(* the first text element under the pointer; its listeners close over the  *)
(* elements and the primary of the render that handled the double-click.   *)
(* The textarea keeps the found element, that closure, its value, the      *)
(* isTextSaved flag and whether it has the focus.                          *)

\* saveText without `if (isTextSaved) return`
saveText_unguarded(s) ==
    LET ta == s.textarea[1]
        newText == ta.value
        updatedElements ==
            [i \in 1..Len(ta.elements) |->
                IF ta.elements[i].id = ta.textElement.id
                THEN [ta.elements[i] EXCEPT !.text = newText]
                ELSE ta.elements[i]]
    IN  [s EXCEPT !.textarea = << [ta EXCEPT !.isTextSaved = TRUE] >>,
                  !.history = updateHistory(s.history, updatedElements),
                  !.selectedElement =
                      IF /\ ta.selectedElement # << >>
                         /\ ta.selectedElement[1].id = ta.textElement.id
                      THEN << [ta.selectedElement[1] EXCEPT !.text = newText] >>
                      ELSE s.selectedElement]

saveText(s) ==
    LET ta == s.textarea[1]
        newText == ta.value
        updatedElements ==
            [i \in 1..Len(ta.elements) |->
                IF ta.elements[i].id = ta.textElement.id
                THEN [ta.elements[i] EXCEPT !.text = newText]
                ELSE ta.elements[i]]
    IN  IF ta.isTextSaved THEN s
        ELSE [s EXCEPT !.textarea = << [ta EXCEPT !.isTextSaved = TRUE] >>,
                       !.history = updateHistory(s.history, updatedElements),
                       !.selectedElement =
                           IF /\ ta.selectedElement # << >>
                              /\ ta.selectedElement[1].id = ta.textElement.id
                           THEN << [ta.selectedElement[1] EXCEPT !.text = newText] >>
                           ELSE s.selectedElement]

\* the textarea has the focus
editing(s) == s.textarea # << >> /\ s.textarea[1].focused

\* the textarea loses the focus: the `blur` listener, saveText
textareaBlur(s) ==
    LET saved == saveText(s)
    IN  [saved EXCEPT !.textarea = << [saved.textarea[1] EXCEPT !.focused = FALSE] >>]

\* the textarea's `keydown` listener.  saveText takes the textarea out of
\* the document; whether textarea.blur() still delivers a blur event to it
\* is the browser's choice, blurDelivered.
textareaKeydown(s, key, shiftKey, blurDelivered) ==
    IF key = "Enter" /\ ~shiftKey THEN
        LET saved == saveText(s)
            blurred == IF blurDelivered THEN saveText(saved) ELSE saved
        IN  [blurred EXCEPT !.textarea = << [blurred.textarea[1] EXCEPT !.focused = FALSE] >>]
    ELSE s

\* typing replaces textarea.value
textareaInput(s, value) ==
    [s EXCEPT !.textarea = << [s.textarea[1] EXCEPT !.value = value] >>]

handleDoubleClick(s, x, y) ==
    LET elements == s.history.present
        isHit(element) == element.type = "text" /\ isPointInElement(x, y, element)
        textElement == Find(elements, isHit)[1]
        \* textarea.focus() takes the focus from the textarea that has it
        unfocused == IF editing(s) THEN textareaBlur(s) ELSE s
    IN  IF ~Some(elements, isHit) THEN s
        ELSE [unfocused EXCEPT !.textarea =
                 << [textElement |-> textElement, elements |-> elements,
                     selectedElement |-> s.selectedElement,
                     value |-> TextOf(textElement),
                     isTextSaved |-> FALSE, focused |-> TRUE] >>]

\* the callback of setTimeout(..., 50): a dblclick event at the point
timerFires(s) ==
    [handleDoubleClick(s, s.timers[1].x, s.timers[1].y) EXCEPT !.timers = Tail(s.timers)]

DoubleClick(x, y) ==
    LET handled == handleDoubleClick(State, x, y)
    IN  /\ Becomes(handled, "doubleClick", handled.history # history)
        /\ NoGesture

TimerFires ==
    /\ timers # << >>
    /\ LET handled == timerFires(State)
       IN  Becomes(handled, "timer", handled.history # history)
    /\ NoGesture

TextareaInput(value) ==
    /\ editing(State)
    /\ Becomes(textareaInput(State, value), "textInput", FALSE)
    /\ NoGesture

TextareaKeydown(shiftKey, blurDelivered) ==
    /\ editing(State)
    /\ Becomes(textareaKeydown(State, "Enter", shiftKey, blurDelivered),
               IF shiftKey THEN "textShiftEnter"
               ELSE IF blurDelivered THEN "textEnterBlur" ELSE "textEnter",
               ~shiftKey)
    /\ NoGesture

TextareaBlur ==
    /\ editing(State)
    /\ Becomes(textareaBlur(State), "textBlur", TRUE)
    /\ NoGesture

\* the text tool has put one text at (70, 120), or a second one at (70, 150);
\* the dblclick events it has scheduled are pending
TwoTexts == handleMouseUp(handleMouseDown(Mixed, 70, 150, FALSE, FALSE, 5))

TextScenes == {Mixed, TwoTexts}

\* on the first text, on the second text, on the rectangle
TextPoints == {Point(75, 110), Point(75, 140), Point(30, 20)}

TextValues == {<< >>, << "H", "i" >>}

MaxTextEvents == 5

InitText == \E s \in TextScenes : StartIn(s)

\* Backspace and Ctrl+Z typed into the textarea reach the window's keydown
\* listener as well
NextText ==
    \/ Counted(MaxTextEvents) /\ \E p \in TextPoints : DoubleClick(p.x, p.y)
    \/ Counted(MaxTextEvents) /\ TimerFires
    \/ Counted(MaxTextEvents) /\ \E value \in TextValues : TextareaInput(value)
    \/ Counted(MaxTextEvents)
       /\ \E shiftKey, blurDelivered \in BOOLEAN : TextareaKeydown(shiftKey, blurDelivered)
    \/ Counted(MaxTextEvents) /\ TextareaBlur
    \/ Counted(MaxTextEvents) /\ Delete
    \/ Counted(MaxTextEvents) /\ Undo

SpecText == InitText /\ [][NextText]_vars

\* the texts of the elements of the scene that have the id
textsOf(elements, id) ==
    {elements[i].text : i \in {j \in 1..Len(elements) : elements[j].id = id}}

\* C29: committing an inline text edit, on blur or on Enter without Shift,
\* sets the edited element's text to the entered string and pushes exactly
\* one history entry for the edit session, also when the Enter key and the
\* blur that follows it both fire; after it the session is over.
C29_TextCommitPushesOnce ==
    [][lastEvent' \in {"textEnter", "textEnterBlur", "textBlur"} =>
          /\ textsOf(history'.present, textarea[1].textElement.id) = {textarea[1].value}
          /\ history'.past = Append(history.past, history.present)
          /\ history'.future = << >>
          /\ textarea'[1].isTextSaved
          /\ ~editing(State')]_vars

\* C29, its case: "Hi" was typed over the placeholder of the text at
\* (70, 120), Enter was pressed and the blur event came after it
C29_Witness ==
    /\ lastEvent = "textEnterBlur"
    /\ \E i \in 1..Len(history.present) :
          /\ history.present[i].type = "text"
          /\ history.present[i].y = 120
          /\ history.present[i].text = << "H", "i" >>
    /\ history.past # << >>
    /\ textsOf(history.past[Len(history.past)], textarea[1].textElement.id)
          = {PlaceholderText}

---------------------------------------------------------------------------
(* Rectangles drawn in every direction and the hit test: C30.  The         *)
(* rectangle tool is dragged between the points, so that widths and        *)
(* heights of both signs arise, and the selection tool is pressed on them. *)

\* (30, 30) is inside the rectangle between (20, 20) and (50, 40); (80, 30)
\* and (60, 50) are outside it
NegPoints == {Point(50, 40), Point(20, 20), Point(30, 30), Point(80, 30), Point(60, 50)}

MaxNegEvents == 4

\* a rectangle dragged from (50, 40) up and left to (20, 20)
DrawnLeftwards == drawShape(Constructed, "rectangle", 50, 40, 20, 20, 1)

InitNeg ==
    \E s \in {setTool(Constructed, "rectangle"), setTool(DrawnLeftwards, "selection")} :
        StartIn(s)

NextNeg ==
    \/ Counted(MaxNegEvents) /\ \E tl \in Tools : SetTool(tl)
    \/ Counted(MaxNegEvents)
       /\ \E p \in NegPoints : MouseDown(p.x, p.y, FALSE, FALSE, now + 1)
    \/ Counted(MaxNegEvents) /\ \E p \in NegPoints : MouseMove(p.x, p.y, FALSE)
    \/ Counted(MaxNegEvents) /\ MouseUp

SpecNeg == InitNeg /\ [][NextNeg]_vars

\* (x, y) is within the normalized bounds of el, borders included
inNormalizedBounds(x, y, el) ==
    LET b == boundsOf(el)
    IN  x >= b.left /\ x <= b.right /\ y >= b.top /\ y <= b.bottom

\* C30: for a rectangle of any extents, negative width or height included,
\* isPointInElement is true exactly for the points within the rectangle's
\* normalized bounds.
C30_NegativeExtentsAreHit ==
    \A i \in 1..Len(history.present) : \A p \in NegPoints :
        history.present[i].type = "rectangle" =>
            (isPointInElement(p.x, p.y, history.present[i])
                <=> inNormalizedBounds(p.x, p.y, history.present[i]))

\* what holds: a rectangle of non-negative width and height is hit exactly
\* within its bounds
NonNegativeExtentsAreHit ==
    \A i \in 1..Len(history.present) : \A p \in NegPoints :
        (/\ history.present[i].type = "rectangle"
         /\ history.present[i].width >= 0
         /\ history.present[i].height >= 0) =>
            (isPointInElement(p.x, p.y, history.present[i])
                <=> inNormalizedBounds(p.x, p.y, history.present[i]))

\* what the code does: a rectangle of negative width or height is hit nowhere
NegativeExtentsAreNeverHit ==
    \A i \in 1..Len(history.present) : \A p \in NegPoints :
        (/\ history.present[i].type = "rectangle"
         /\ (history.present[i].width < 0 \/ history.present[i].height < 0)) =>
            ~isPointInElement(p.x, p.y, history.present[i])

\* a rectangle of negative extents is on the canvas and the selection tool
\* has been pressed within its bounds: the press opened a selection box
\* instead of picking the rectangle
NegativeRectanglePressed ==
    /\ lastEvent = "mouseDown"
    /\ action = "selecting"
    /\ \E i \in 1..Len(history.present) :
          /\ history.present[i].type = "rectangle"
          /\ history.present[i].width < 0
          /\ inNormalizedBounds(selectionBox[1].startX, selectionBox[1].startY,
                                history.present[i])


\* no press within a rectangle of negative extents ever picks it
NegativeRectangleIsNotPicked ==
    [][\A p \in NegPoints :
          (/\ MouseDown(p.x, p.y, FALSE, FALSE, now + 1)
           /\ tool = "selection"
           /\ elementsAt(history.present, p) = << >>) =>
             action' = "selecting"]_vars

---------------------------------------------------------------------------
(* Invariants of the elements and of the history: C31 to C33, C37.         *)

\* C31: every element of present has strokeWidth >= 1, whichever drawing
\* tool created it.
C31_StrokeWidthAtLeastOne ==
    \A i \in 1..Len(history.present) :
        /\ IsNum(history.present[i].strokeWidth)
        /\ Num(history.present[i].strokeWidth) >= 1

\* what holds: every element that is not a text has the toolbar's stroke
\* width, and every text has stroke width 0
OnlyTextHasNoStroke ==
    \A i \in 1..Len(history.present) :
        history.present[i].strokeWidth =
            IF history.present[i].type = "text" THEN 0 ELSE strokeWidth

---------------------------------------------------------------------------
(* Resizing: C32, C38.  Two squares, (20, 20) 40 x 40 and (100, 20)        *)
(* 40 x 40, with the first clicked or with both selected; the circle about *)
(* (40, 40) of radius 20 and a line, both selected; and the first square    *)
(* still the primary after every commit has been undone; and the two       *)
(* squares drawn within one clock tick, both selected.  The pointer is     *)
(* pressed on handles of the primary and dragged, with and without Shift.  *)

Squares ==
    setTool(drawShape(drawShape(Constructed, "rectangle", 20, 20, 60, 60, 1),
                      "rectangle", 100, 20, 140, 60, 2),
            "selection")

SquareClicked == handleMouseUp(handleMouseDown(Squares, 40, 40, FALSE, FALSE, 3))

RECURSIVE undoAll(_)
undoAll(s) == IF Len(s.history.past) = 0 THEN s ELSE undoAll(keyUndo(s))

\* the two squares drawn while Date.now() returned the same value, both
\* selected: they have one id
SameTick ==
    keySelectAll(setTool(drawShape(drawShape(Constructed, "rectangle", 20, 20, 60, 60, 1),
                                   "rectangle", 100, 20, 140, 60, 1),
                         "selection"))

ResizeScenes ==
    { SquareClicked,
      keySelectAll(Squares),
      SameTick,
      keySelectAll(setTool(CircleAndLine, "selection")),
      undoAll(SquareClicked) }

\* the top-left, right and bottom handles of the first square; the right
\* and bottom handles of the circle
HandlePoints == {Point(20, 20), Point(60, 40), Point(40, 60)}

ResizeTargets == {Point(30, 30), Point(80, 70), Point(10, 40)}

MaxResizeEvents == 4

\* the element of present the resize applies to
resized(s) == Find(s.history.present, LAMBDA el : el.id = s.selectedElement[1].id)

\* the aspect ratio kept under Shift gives an integer width and height
shiftResizeIsExact(s, x, y) ==
    IF s.action # "resizing" \/ s.selectedElement = << >> THEN TRUE
    ELSE IF s.activeHandle = "rotation" THEN TRUE
    ELSE \A i \in 1..Len(s.history.present) :
            LET el == s.history.present[i]
                r == resizeRectangle(el, s.activeHandle, x, y, FALSE)
                ratioW == IF OrZero(el.width) = 0 THEN 1 ELSE OrZero(el.width)
                ratioH == IF OrZero(el.height) = 0 THEN 1 ELSE OrZero(el.height)
            IN  IF el.id # s.selectedElement[1].id \/ el.type = "circle" THEN TRUE
                ELSE IF el.type # "rectangle" THEN FALSE
                ELSE IF r.width = 0 \/ r.height = 0 THEN TRUE
                ELSE IF s.activeHandle \in {"left", "right"}
                THEN (r.width * ratioH) % ratioW = 0
                ELSE (r.height * ratioW) % ratioH = 0

InitResize == \E s \in ResizeScenes : StartIn(s)

NextResize ==
    \/ Counted(MaxResizeEvents)
       /\ \E p \in HandlePoints : MouseDown(p.x, p.y, FALSE, FALSE, now + 1)
    \/ Counted(MaxResizeEvents)
       /\ \E p \in ResizeTargets, shiftKey \in BOOLEAN :
             /\ shiftKey => shiftResizeIsExact(State, p.x, p.y)
             /\ MouseMove(p.x, p.y, shiftKey)
    \/ Counted(MaxResizeEvents) /\ MouseUp
    \/ Counted(MaxResizeEvents) /\ Undo

SpecResize == InitResize /\ [][NextResize]_vars

\* the two sides of a rectangle along one axis after the handle has taken
\* one of them to the pointer: `near` and `far` are the sides before
sidesAfter(near, far, pointer, dragsNear, dragsFar) ==
    IF dragsNear THEN {pointer, far} ELSE IF dragsFar THEN {near, pointer} ELSE {near, far}

\* C32: after a pointer-move in Resizing on a handle other than the rotation
\* handle of a rectangle, the stored width and height are both >= 0, and
\* (the aspect ratio not being kept) the rectangle covers the region between
\* the side the handle took to the pointer and the side opposite to it.
C32_ResizeNormalizes ==
    [][\A p \in ResizeTargets, shiftKey \in BOOLEAN :
          (/\ action = "resizing"
           /\ selectedElement # << >>
           /\ activeHandle \notin {"null", "rotation"}
           /\ resized(State) # << >>
           /\ resized(State)[1].type = "rectangle"
           /\ shiftKey => shiftResizeIsExact(State, p.x, p.y)
           /\ MouseMove(p.x, p.y, shiftKey)) =>
             LET el == resized(State)[1]
                 after == resized(State')[1]
                 xs == sidesAfter(el.x, el.x + el.width, p.x,
                                  activeHandle \in {"top-left", "left", "bottom-left"},
                                  activeHandle \in {"top-right", "right", "bottom-right"})
                 ys == sidesAfter(el.y, el.y + el.height, p.y,
                                  activeHandle \in {"top-left", "top", "top-right"},
                                  activeHandle \in {"bottom-left", "bottom", "bottom-right"})
             IN  /\ after.width >= 0
                 /\ after.height >= 0
                 /\ ~shiftKey => /\ {after.x, after.x + after.width} = xs
                                 /\ {after.y, after.y + after.height} = ys]_vars

\* C32, its case: the top-left handle of the first square has been dragged
\* past the bottom-right corner to (80, 70); the square is stored as
\* (60, 60) 20 x 10
C32_Witness ==
    /\ lastEvent = "mouseMove"
    /\ action = "resizing"
    /\ activeHandle = "top-left"
    /\ Len(history.present) = 2
    /\ history.present[1].type = "rectangle"
    /\ << history.present[1].x, history.present[1].y,
          history.present[1].width, history.present[1].height >> = << 60, 60, 20, 10 >>

---------------------------------------------------------------------------
(* Zoom: C33.  prev + 0.1 and prev - 0.1 are floating-point operations:    *)
(* their result is the exact one up to a rounding error, which is taken    *)
(* as a choice of at most RoundingError thousandths either way.  The       *)
(* bounds 3 and 0.5 and the reset value 1 are exact.                       *)

RoundingError == 1

Roundings == (0 - RoundingError)..RoundingError

\* setZoom((prev) => Math.min(prev + 0.1, 3))
keyZoomIn(s, rounding) ==
    [s EXCEPT !.zoom = Min(s.zoom + ZoomScale \div 10 + rounding, 3 * ZoomScale)]

\* keyZoomOut bounded below by 0.05
keyZoomOut_lowFloor(s, rounding) ==
    [s EXCEPT !.zoom = Max(s.zoom - ZoomScale \div 10 + rounding, ZoomScale \div 20)]

\* setZoom((prev) => Math.max(prev - 0.1, 0.5))
keyZoomOut(s, rounding) ==
    [s EXCEPT !.zoom = Max(s.zoom - ZoomScale \div 10 + rounding, ZoomScale \div 2)]

\* setZoom(1)
keyZoomReset(s) == [s EXCEPT !.zoom = ZoomScale]

ZoomIn(rounding) == Becomes(keyZoomIn(State, rounding), "zoomIn", FALSE) /\ NoGesture

ZoomOut(rounding) == Becomes(keyZoomOut(State, rounding), "zoomOut", FALSE) /\ NoGesture

ZoomReset == Becomes(keyZoomReset(State), "zoomReset", FALSE) /\ NoGesture

MaxZoomEvents == 22

InitZoom == \E s \in {Drawn, Clicked} : StartIn(s)

NextZoom ==
    \/ Counted(MaxZoomEvents) /\ \E rounding \in Roundings : ZoomIn(rounding)
    \/ Counted(MaxZoomEvents) /\ \E rounding \in Roundings : ZoomOut(rounding)
    \/ Counted(MaxZoomEvents) /\ ZoomReset

SpecZoom == InitZoom /\ [][NextZoom]_vars

\* C33: after every zoom-in, zoom-out and zoom-reset the zoom factor is
\* within [0.5, 3.0]: zoom-in adds 0.1 or stops at 3.0, zoom-out subtracts
\* 0.1 or stops at 0.5, reset gives 1; the scene, the history and the
\* selection stay as they are.
C33_ZoomStaysInRange ==
    [][lastEvent' \in {"zoomIn", "zoomOut", "zoomReset"} =>
          /\ zoom' >= ZoomScale \div 2
          /\ zoom' <= 3 * ZoomScale
          /\ lastEvent' = "zoomIn" =>
                \/ zoom' = 3 * ZoomScale /\ zoom + ZoomScale \div 10 + RoundingError >= zoom'
                \/ zoom' - (zoom + ZoomScale \div 10) \in Roundings
          /\ lastEvent' = "zoomOut" =>
                \/ zoom' = ZoomScale \div 2 /\ zoom - ZoomScale \div 10 - RoundingError <= zoom'
                \/ zoom' - (zoom - ZoomScale \div 10) \in Roundings
          /\ lastEvent' = "zoomReset" => zoom' = ZoomScale
          /\ history' = history
          /\ selectedElement' = selectedElement
          /\ clipboard' = clipboard]_vars

\* C33, its case: twenty zoom-ins have taken the zoom factor from 1 to the
\* upper bound, with the rectangle on the canvas
C33_Witness ==
    /\ lastEvent = "zoomIn"
    /\ zoom = 3 * ZoomScale
    /\ nev >= 20
    /\ history.present # << >>

---------------------------------------------------------------------------
(* A Drawing gesture with other events in between: C34.  The rectangle is  *)
(* on the canvas, with or without a file being read; the pointer is        *)
(* pressed on empty canvas and moved, and undo, redo, a tool switch or the *)
(* file's onload may come before the pointer-up.  Date.now() is read by    *)
(* the pointer-down only, so that clockId(now) is the id the last          *)
(* pointer-down gave to the element it appended.                           *)

DrawScenes ==
    { Drawn, handleImport(Drawn, [syntax |-> TRUE, json |-> << ImportedRectangle >>]) }

DrawDown == Point(80, 60)

DrawTargets == {Point(100, 90), Point(120, 70)}

DrawTools == {"selection", "rectangle", "line"}

MaxDrawEvents == 4

InitDraw == \E s \in DrawScenes : StartIn(s)

NextDraw ==
    \/ Counted(MaxDrawEvents) /\ MouseDown(DrawDown.x, DrawDown.y, FALSE, FALSE, now + 1)
    \/ Counted(MaxDrawEvents) /\ \E p \in DrawTargets : MouseMove(p.x, p.y, FALSE)
    \/ Counted(MaxDrawEvents) /\ MouseUp
    \/ Counted(MaxDrawEvents) /\ Undo
    \/ Counted(MaxDrawEvents) /\ Redo
    \/ Counted(MaxDrawEvents) /\ \E tl \in DrawTools : SetTool(tl)
    \/ Counted(MaxDrawEvents) /\ Onload(1)

SpecDraw == InitDraw /\ [][NextDraw]_vars

\* the elements of the step that the step changed
changedIn(before, after) ==
    {i \in 1..Len(before) : i > Len(after) \/ after[i] # before[i]}

\* C34: during a Drawing gesture every pointer-move changes only the element
\* that the gesture's pointer-down appended, whatever was handled between
\* the pointer-down and the move.
C34_DrawingChangesOnlyNewElement ==
    [][\A p \in DrawTargets :
          (MouseMove(p.x, p.y, FALSE) /\ action = "drawing") =>
             \A i \in changedIn(history.present, history'.present) :
                history.present[i].id = clockId(now)]_vars

\* what holds: a pointer-move of a Drawing gesture in which only pointer
\* events were handled since the pointer-down changes at most the last
\* element, the one the pointer-down appended
UninterruptedDrawingChangesOnlyNewElement ==
    [][\A p \in DrawTargets :
          (MouseMove(p.x, p.y, FALSE) /\ action = "drawing" /\ gestureKind = "drawing") =>
             /\ changedIn(history.present, history'.present) \subseteq {Len(history.present)}
             /\ history.present[Len(history.present)].id = clockId(now)
             /\ clockId(now) \notin idsOf(gestureStart.present)]_vars

---------------------------------------------------------------------------
(* The inline text editor and the scene at the commit: C35.                *)

\* the scene with the text of every element of the id replaced
withText(elements, id, value) ==
    [i \in 1..Len(elements) |->
        IF elements[i].id = id THEN [elements[i] EXCEPT !.text = value] ELSE elements[i]]

CommitRestoresSceneOfDoubleClick ==
    [][lastEvent' \in {"textEnter", "textEnterBlur", "textBlur"} =>
          history'.present =
              withText(textarea[1].elements, textarea[1].textElement.id, textarea[1].value)]_vars

---------------------------------------------------------------------------
(* The primary selected element and the scene: C36.                        *)

\* C36: when the primary selected element is set, present holds an element
\* of the same id, that element has selected = true, and the primary's
\* fields equal that element's fields.
C36_PrimaryMirrorsScene ==
    selectedElement # << >> =>
        \E i \in 1..Len(history.present) :
            /\ history.present[i].id = selectedElement[1].id
            /\ history.present[i].selected = "true"
            /\ history.present[i] = selectedElement[1]

\* what holds: the pointer-down that picks an element leaves a primary whose
\* id is in the scene
PickedPrimaryIsInScene ==
    (lastEvent = "mouseDown" /\ action = "moving") =>
        /\ selectedElement # << >>
        /\ selectedElement[1].id \in idsOf(history.present)

\* the primary after an undo that took its element out of the scene
PrimaryOutlivesItsElement ==
    /\ lastEvent = "undo"
    /\ selectedElement # << >>
    /\ selectedElement[1].id \notin idsOf(history.present)

---------------------------------------------------------------------------
(* The history near its cap under gestures, undo, redo and imports: C37.   *)
(* 46 or 50 documents have been imported and the rectangle of the last one *)
(* has been clicked: past holds 48 snapshots, or 50 with the oldest ones   *)
(* dropped.                                                                *)

\* the documents k, k + 1, ... imported and loaded, n of them
RECURSIVE importTimes(_, _, _)
importTimes(s, k, n) ==
    LET once == readerOnload(handleImport(s, CapDocument(k)), 1)
    IN  IF n = 0 \/ once = s THEN s ELSE importTimes(once, k + 1, n - 1)

\* the rectangle of document n spans (n, 0) to (n + 10, 10)
clickedAfter(n) ==
    handleMouseUp(handleMouseDown(importTimes(Constructed, 1, n), n + 5, 5, FALSE, FALSE, 1))

FullScenes == {clickedAfter(46), clickedAfter(50)}

\* inside both rectangles; the top-left handles of the two
FullPoints == {Point(53, 5), Point(46, 0), Point(50, 0)}

MaxFullEvents == 4

InitFull == \E s \in FullScenes : StartIn(s)

NextFull ==
    \/ Counted(MaxFullEvents)
       /\ \E p \in FullPoints : MouseDown(p.x, p.y, FALSE, FALSE, now + 1)
    \/ Counted(MaxFullEvents) /\ \E p \in FullPoints : MouseMove(p.x, p.y, FALSE)
    \/ Counted(MaxFullEvents) /\ MouseUp
    \/ Counted(MaxFullEvents) /\ Undo
    \/ Counted(MaxFullEvents) /\ Redo
    \/ Counted(MaxFullEvents) /\ reading = << >> /\ Import(CapDocument(60))
    \/ Counted(MaxFullEvents) /\ Onload(1)

SpecFull == InitFull /\ [][NextFull]_vars

\* the snapshots of the history in order, from the oldest undoable to the
\* last redoable
timeline(h) == h.past \o << h.present >> \o h.future

\* C37: past and future together never hold more than 50 snapshots, so the
\* caps that undo applies to future and redo applies to past discard
\* nothing: undo and redo keep every snapshot, in order.
C37_PastPlusFutureWithinCap ==
    [][/\ Len(history.past) + Len(history.future) <= MAX_HISTORY_LENGTH
       /\ Len(history'.past) + Len(history'.future) <= MAX_HISTORY_LENGTH
       /\ lastEvent' \in {"undo", "redo"} =>
             /\ timeline(history') = timeline(history)
             /\ Len(history'.past) = Len(history.past)
                                       + (IF lastEvent' = "undo" THEN 0 - 1 ELSE 1)]_vars

\* C37, its case: past was full, two undos have moved two snapshots to
\* future, a redo has moved one back
C37_Witness ==
    /\ lastEvent = "redo"
    /\ Len(history.past) = MAX_HISTORY_LENGTH - 1
    /\ Len(history.future) = 1

\* C38: every pointer-move in Resizing changes at most the one element whose
\* id is the primary's id; every other element is unchanged, and when no
\* element of present has that id the scene is unchanged.
C38_ResizeChangesOnlyPrimary ==
    [][\A p \in ResizeTargets, shiftKey \in BOOLEAN :
          (/\ action = "resizing"
           /\ selectedElement # << >>
           /\ activeHandle # "null"
           /\ shiftKey => shiftResizeIsExact(State, p.x, p.y)
           /\ MouseMove(p.x, p.y, shiftKey)) =>
             LET changed == changedIn(history.present, history'.present)
             IN  /\ Len(history'.present) = Len(history.present)
                 /\ Cardinality(changed) <= 1
                 /\ \A i \in changed : history.present[i].id = selectedElement[1].id
                 /\ selectedElement[1].id \notin idsOf(history.present) => changed = {}]_vars

\* what holds: a pointer-move in Resizing changes only elements that have
\* the primary's id, which is at most one element when the ids of the scene
\* differ from one another
ResizeChangesOnlyPrimaryId ==
    [][\A p \in ResizeTargets, shiftKey \in BOOLEAN :
          (/\ action = "resizing"
           /\ selectedElement # << >>
           /\ activeHandle # "null"
           /\ shiftKey => shiftResizeIsExact(State, p.x, p.y)
           /\ MouseMove(p.x, p.y, shiftKey)) =>
             LET changed == changedIn(history.present, history'.present)
             IN  /\ Len(history'.present) = Len(history.present)
                 /\ \A i \in changed : history.present[i].id = selectedElement[1].id
                 /\ Cardinality(idsOf(history.present)) = Len(history.present)
                       => Cardinality(changed) <= 1]_vars

\* a pointer-move in Resizing has left the scene as it was because no
\* element has the primary's id
ResizedNothing ==
    /\ lastEvent = "mouseMove"
    /\ action = "resizing"
    /\ selectedElement # << >>
    /\ selectedElement[1].id \notin idsOf(history.present)

---------------------------------------------------------------------------
(* updateElementProperty among several elements: C39.  The rectangle, the  *)
(* line, the circle and the text are on the canvas with none, all, or all  *)
(* but the rectangle selected; the callback is invoked with a number for   *)
(* a numeric property, whatever is selected.                               *)

UpdateProperty(property, value) ==
    /\ Becomes(updateElementProperty(State, property, value),
               IF anySelected THEN "edit" ELSE "edit-noop", anySelected)
    /\ NoGesture

EditNumbers == {"x", "strokeWidth", "rotation"}

EditValues == {7, 0 - 3}

MaxEditEvents == 3

InitEdit == \E s \in MoveScenes : StartIn(s)

NextEdit ==
    \/ Counted(MaxEditEvents)
       /\ \E property \in EditNumbers, value \in EditValues : UpdateProperty(property, value)
    \/ Counted(MaxEditEvents) /\ Escape
    \/ Counted(MaxEditEvents) /\ SelectAll
    \/ Counted(MaxEditEvents) /\ Undo
    \/ Counted(MaxEditEvents)
       /\ MouseDown(MoveDown.x, MoveDown.y, TRUE, FALSE, now + 1)
    \/ Counted(MaxEditEvents) /\ MouseUp

SpecEdit == InitEdit /\ [][NextEdit]_vars

\* the effect of an edit of the property on the history and the primary
edited(property, value) ==
    IF anySelected
    THEN /\ Len(history'.present) = Len(history.present)
         /\ \A i \in 1..Len(history.present) :
               history'.present[i] =
                   IF history.present[i].selected = "true"
                   THEN [history.present[i] EXCEPT ![property] = value]
                   ELSE history.present[i]
         /\ history'.past = Append(history.past, history.present)
    ELSE history' = history /\ selectedElement' = selectedElement

\* C39: a property edit made while an element is selected sets the property
\* to the value on every selected element, leaves every unselected element
\* unchanged and pushes exactly one history entry; with no element selected
\* it changes neither the scene nor the history.
C39_EditAppliesToSelection ==
    [][\A property \in EditNumbers, value \in EditValues :
          UpdateProperty(property, value) => edited(property, value)]_vars

\* C39, its case: with the line, the circle and the text selected and the
\* rectangle not, the stroke width has been set to 7
C39_Witness ==
    /\ lastEvent = "edit"
    /\ Len(history.present) = 4
    /\ history.present[1].selected # "true"
    /\ history.present[1].strokeWidth = strokeWidth
    /\ \A i \in 2..4 : /\ history.present[i].selected = "true"
                       /\ history.present[i].strokeWidth = 7
    /\ \E i \in 2..4 : history.past[Len(history.past)][i].strokeWidth # 7

---------------------------------------------------------------------------
(* The transient gesture data and the interaction state: C40.              *)

\* C40: an active handle is set only in Resizing, a selection box is set
\* only in BoxSelecting, and in Idle the start point, the active handle and
\* the selection box are all absent.
C40_GestureDataMatchesAction ==
    /\ activeHandle # "null" => action = "resizing"
    /\ selectionBox # << >> => action = "selecting"
    /\ action = "none" => /\ startPoint = << >>
                          /\ activeHandle = "null"
                          /\ selectionBox = << >>

\* what holds: in Idle the start point and the active handle are absent, and
\* Resizing has an active handle
IdleHasNoStartPointAndNoHandle ==
    /\ action = "none" => startPoint = << >> /\ activeHandle = "null"
    /\ action = "resizing" => activeHandle # "null"

\* a pointer-down on an element after a pointer-down on a handle: Moving
\* with the handle still set
MovingWithHandle == action = "moving" /\ activeHandle # "null"

====
